---- MODULE Spec2Model ----
(***************************************************************************)
(* Model of the DTR (Daily Time Record) extraction and aggregation code:   *)
(*   src/src/utils/parseDtr.ts   - time normalisation, word / text parsing *)
(*   src/src/utils/pdfHasText.ts - parseTimeToMinutes, diffMinutes,        *)
(*                                 computeTotalMinutes                     *)
(* JavaScript strings are modelled as sequences of one-character strings,  *)
(* so that the regular expressions of the source are real parsers here.    *)
(***************************************************************************)
EXTENDS Integers, Sequences, FiniteSets, TLC

VARIABLES
  op,          \* the operation that produced the current state
  hh, mm, ap,  \* normalizeTime arguments (capture groups of a time regex)
  canon,       \* normalizeTime's result
  mins,        \* timeToMinutesOfDay(canon)
  aggMins,     \* parseTimeToMinutes(canon)
  start, end,  \* diffMinutes arguments; the start / end fields of ScheduleBuilder
  diff,        \* diffMinutes' result
  words,       \* parseDtrFromTesseractWords: args.words
  text,        \* parseDtrFromPdfText: args.text
  rows,        \* DtrRow[]: an extractor's result.rows, computeTotalMinutes' input
  days,        \* an extractor's debug.days
  scanStarts,  \* timeRe.lastIndex at the start of each chunk scan of the last call
  clusters,    \* the row clusters the last OCR call formed
  probe,       \* the first call: its input, its rows, whether another input came after
  schedule,    \* ScheduleState.items
  weekday,     \* the weekday field of ScheduleBuilder
  year, monthIndex0,
  result,      \* computeTotalMinutes' result
  dayTimes,    \* timesFound: the readings attributed to one day, in detection order
  resolved,    \* what each extractor's resolution made of dayTimes
  queue,       \* ScanQueueItem[]: the scan queue, every queued update applied
  processingRef,  \* processingRef.current
  procs,       \* the processQueueItem invocations that wait at an await
  effects,     \* the effects that a change of queue or schedule has yet to run
  reprocess    \* the loop of reprocessPending: the items left, whether it awaits one

timeVars == <<hh, mm, ap, canon, mins, aggMins>>
diffVars == <<start, end, diff>>
extVars  == <<words, text, days, scanStarts, clusters, probe>>
aggVars  == <<schedule, weekday, year, monthIndex0, result>>
resolveVars == <<dayTimes, resolved>>
queueVars == <<queue, processingRef, procs, effects, reprocess>>
otherVars == <<resolveVars, queueVars>>
vars == <<op, timeVars, diffVars, extVars, rows, aggVars, otherVars>>

-----------------------------------------------------------------------------
(* JavaScript values *)

\* `undefined` for an optional string, `null` for number | null
Undefined == <<"undefined">>
Null == -1

Digit == {"0", "1", "2", "3", "4", "5", "6", "7", "8", "9"}

IsDigit(c) == c \in Digit

\* \s, over the characters of the model's alphabet
IsSpace(c) == c \in {" ", "\t"}

DigitVal(c) ==
  CASE c = "0" -> 0 [] c = "1" -> 1 [] c = "2" -> 2 [] c = "3" -> 3
    [] c = "4" -> 4 [] c = "5" -> 5 [] c = "6" -> 6 [] c = "7" -> 7
    [] c = "8" -> 8 [] c = "9" -> 9

DigitChar(d) ==
  CASE d = 0 -> "0" [] d = 1 -> "1" [] d = 2 -> "2" [] d = 3 -> "3"
    [] d = 4 -> "4" [] d = 5 -> "5" [] d = 6 -> "6" [] d = 7 -> "7"
    [] d = 8 -> "8" [] d = 9 -> "9"

LowerAlpha == <<"a", "b", "c", "d", "e", "f", "g", "h", "i", "j", "k", "l", "m",
                "n", "o", "p", "q", "r", "s", "t", "u", "v", "w", "x", "y", "z">>
UpperAlpha == <<"A", "B", "C", "D", "E", "F", "G", "H", "I", "J", "K", "L", "M",
                "N", "O", "P", "Q", "R", "S", "T", "U", "V", "W", "X", "Y", "Z">>

UpperChar(c) ==
  IF \E i \in 1..26 : LowerAlpha[i] = c
  THEN UpperAlpha[CHOOSE i \in 1..26 : LowerAlpha[i] = c]
  ELSE c

\* String.prototype.toUpperCase
toUpperCase(s) == [i \in 1..Len(s) |-> UpperChar(s[i])]

\* Number(s) for a string of decimal digits (Number("") is 0)
RECURSIVE Number(_)
Number(s) ==
  IF s = <<>> THEN 0
  ELSE 10 * Number(SubSeq(s, 1, Len(s) - 1)) + DigitVal(s[Len(s)])

\* String(n) for an integer n >= 0
RECURSIVE String(_)
String(n) ==
  IF n < 10 THEN <<DigitChar(n)>>
  ELSE String(n \div 10) \o <<DigitChar(n % 10)>>

\* length of the longest prefix of s made of digits: a greedy \d*
RECURSIVE DigitPrefixLen(_)
DigitPrefixLen(s) ==
  IF s = <<>> \/ ~IsDigit(s[1]) THEN 0
  ELSE 1 + DigitPrefixLen(Tail(s))

Drop(s, n) == SubSeq(s, n + 1, Len(s))
Take(s, n) == SubSeq(s, 1, IF n > Len(s) THEN Len(s) ELSE n)

-----------------------------------------------------------------------------
(* Time Token Normalizer: parseDtr.ts *)

AM == <<"A", "M">>
PM == <<"P", "M">>

IsMeridiem(s) == toUpperCase(s) \in {AM, PM}

normalizeTimeKeepsZero(h, m, a) == h \o <<":">> \o m \o <<" ">> \o toUpperCase(a)

\* parseDtr.ts 31-34
normalizeTime(h, m, a) ==
  String(Number(h)) \o <<":">> \o m \o <<" ">> \o toUpperCase(a)

IsSep(c) == c \in {":", "."} \/ IsSpace(c)

\* length of the longest prefix of s made of separators: [:.\s]*
RECURSIVE SepPrefixLen(_)
SepPrefixLen(s) ==
  IF s = <<>> \/ ~IsSep(s[1]) THEN 0
  ELSE 1 + SepPrefixLen(Tail(s))

\* The common shape of every anchored time regex of the source:
\*   (\d+)(separators)(2 chars)(rest)
\* The hour group is followed by a non-digit and the separator group by a
\* digit, so both are the longest runs and the decomposition is unique.
TimeShape(t) ==
  LET hl  == DigitPrefixLen(t)
      t1  == Drop(t, hl)
      ml  == SepPrefixLen(t1)
      t2  == Drop(t1, ml)
  IN  [hh   |-> Take(t, hl),
       mid  |-> Take(t1, ml),
       mm   |-> Take(t2, 2),
       rest |-> Drop(t2, 2)]

TwoDigits(s) == Len(s) = 2 /\ IsDigit(s[1]) /\ IsDigit(s[2])

\* /^(\d{1,2}):(\d{2})\s?(AM|PM)$/i   (parseDtr.ts 49, pdfHasText.ts 25)
ClockMatch(t) ==
  LET sh == TimeShape(t)
  IN  /\ Len(sh.hh) \in {1, 2}
      /\ sh.mid = <<":">>
      /\ TwoDigits(sh.mm)
      /\ \/ IsMeridiem(sh.rest)
         \/ Len(sh.rest) = 3 /\ IsSpace(sh.rest[1]) /\ IsMeridiem(Tail(sh.rest))

\* the meridiem group m[3] of a ClockMatch
ClockMeridiem(t) ==
  LET r == TimeShape(t).rest
  IN  toUpperCase(IF Len(r) = 3 THEN Tail(r) ELSE r)

timeToMinutesOfDayNoNoon(t) ==
  IF ~ClockMatch(t) THEN Null
  ELSE LET sh == TimeShape(t)
           h  == Number(sh.hh)
           m  == Number(sh.mm)
           h24 == IF ClockMeridiem(t) = AM THEN h ELSE h + 12
       IN  h24 * 60 + m

\* parseDtr.ts 48-62
timeToMinutesOfDay(t) ==
  IF ~ClockMatch(t) THEN Null
  ELSE LET sh == TimeShape(t)
           h  == Number(sh.hh)
           m  == Number(sh.mm)
           h24 == IF ClockMeridiem(t) = AM
                  THEN (IF h = 12 THEN 0 ELSE h)
                  ELSE (IF h # 12 THEN h + 12 ELSE h)
       IN  h24 * 60 + m

\* parseDtr.ts 65
timeToMinutes(t) == timeToMinutesOfDay(t)

-----------------------------------------------------------------------------
(* Schedule-Filtered Aggregator: pdfHasText.ts *)

parseTimeToMinutesNoRange(t) == timeToMinutesOfDay(t)

\* pdfHasText.ts 23-40
parseTimeToMinutes(t) ==
  IF ~ClockMatch(t) THEN Null
  ELSE LET sh == TimeShape(t)
           h  == Number(sh.hh)
           m  == Number(sh.mm)
       IN  IF h < 1 \/ h > 12 \/ m < 0 \/ m > 59 THEN Null
           ELSE LET h24 == IF ClockMeridiem(t) = AM
                           THEN (IF h = 12 THEN 0 ELSE h)
                           ELSE (IF h # 12 THEN h + 12 ELSE h)
                IN  h24 * 60 + m

\* a falsy optional string: undefined or ""
IsFalsy(x) == x = Undefined \/ x = <<>>

diffMinutesNoWrap(s, e) ==
  IF IsFalsy(s) \/ IsFalsy(e) THEN 0
  ELSE LET sm == parseTimeToMinutes(s)
           em == parseTimeToMinutes(e)
       IN  IF sm = Null \/ em = Null THEN 0
           ELSE em - sm

\* pdfHasText.ts 42-51
diffMinutes(s, e) ==
  IF IsFalsy(s) \/ IsFalsy(e) THEN 0
  ELSE LET sm == parseTimeToMinutes(s)
           em == parseTimeToMinutes(e)
       IN  IF sm = Null \/ em = Null THEN 0
           ELSE IF em < sm THEN 24 * 60 - sm + em
           ELSE em - sm

\* days from 1970-01-01 to the civil date (y, m, d), m in 1..12; d may lie
\* outside the month, as the Date constructor lets it
DaysFromCivil(y, m, d) ==
  LET y1  == IF m <= 2 THEN y - 1 ELSE y
      era == y1 \div 400
      yoe == y1 - era * 400
      mp  == IF m > 2 THEN m - 3 ELSE m + 9
      doy == ((153 * mp + 2) \div 5) + d - 1
      doe == yoe * 365 + (yoe \div 4) - (yoe \div 100) + doy
  IN  era * 146097 + doe - 719468

\* pdfHasText.ts 53-55, parseDtr.ts 67-69: new Date(year, monthIndex0, day).getDay()
\* (a year in 0..99 is 1900 + year; month and day overflow carry over)
weekdayOfDate(y, m0, d) ==
  LET yy == (IF y \in 0..99 THEN 1900 + y ELSE y) + (m0 \div 12)
      mo == (m0 % 12) + 1
  IN  (DaysFromCivil(yy, mo, d) + 4) % 7

RECURSIVE SumMinutes(_)
\* perDay.reduce((sum, d) => sum + d.minutes, 0)
SumMinutes(perDay) ==
  IF perDay = <<>> THEN 0
  ELSE SumMinutes(SubSeq(perDay, 1, Len(perDay) - 1)) + perDay[Len(perDay)].minutes

\* pdfHasText.ts 64
AllowedWeekdays(sched) == {sched[i].weekday : i \in 1..Len(sched)}

PerDayEntryUnfiltered(r, sched, y, m0) ==
  LET wd == weekdayOfDate(y, m0, r.day)
      inSchedule == wd \in AllowedWeekdays(sched)
      minutes == diffMinutes(r.amIn, r.amOut) + diffMinutes(r.pmIn, r.pmOut)
  IN  [day |-> r.day, weekday |-> wd, inSchedule |-> inSchedule,
       minutes |-> minutes, rawMinutes |-> minutes]

\* pdfHasText.ts 66-79: the body of rows.map
PerDayEntry(r, sched, y, m0) ==
  LET wd == weekdayOfDate(y, m0, r.day)
      inSchedule == wd \in AllowedWeekdays(sched)
      minutes == diffMinutes(r.amIn, r.amOut) + diffMinutes(r.pmIn, r.pmOut)
  IN  [day |-> r.day, weekday |-> wd, inSchedule |-> inSchedule,
       minutes |-> IF inSchedule THEN minutes ELSE 0,
       rawMinutes |-> minutes]

computeTotalMinutesLastOnly(rs, sched, y, m0) ==
  LET perDay == [i \in 1..Len(rs) |-> PerDayEntry(rs[i], sched, y, m0)]
  IN  [totalMinutes |-> IF perDay = <<>> THEN 0 ELSE perDay[Len(perDay)].minutes,
       perDay |-> perDay]

\* pdfHasText.ts 57-83
computeTotalMinutes(rs, sched, y, m0) ==
  LET perDay == [i \in 1..Len(rs) |-> PerDayEntry(rs[i], sched, y, m0)]
  IN  [totalMinutes |-> SumMinutes(perDay), perDay |-> perDay]

-----------------------------------------------------------------------------
(* Stable sort, as Array.prototype.sort with a numeric comparator *)

Front(s) == SubSeq(s, 1, Len(s) - 1)
Last(s) == s[Len(s)]

\* x goes after every element whose key is <= its own: equal keys keep their order
InsertByKey(sorted, x) ==
  LET k == Cardinality({i \in 1..Len(sorted) : sorted[i].key <= x.key})
  IN  Take(sorted, k) \o <<x>> \o Drop(sorted, k)

RECURSIVE SortByKey(_)
\* s is a sequence of records with a numeric field key
SortByKey(s) ==
  IF s = <<>> THEN <<>>
  ELSE InsertByKey(SortByKey(Front(s)), Last(s))

UniqueKeepsAll(s) == s

RECURSIVE Unique(_)
\* Array.from(new Set(s)): the first occurrence of each element, in order
Unique(s) ==
  IF s = <<>> THEN <<>>
  ELSE LET u == Unique(Front(s))
       IN  IF \E i \in 1..Len(u) : u[i] = Last(s) THEN u ELSE Append(u, Last(s))

RECURSIVE TrimLeft(_)
TrimLeft(s) == IF s # <<>> /\ IsSpace(s[1]) THEN TrimLeft(Tail(s)) ELSE s

RECURSIVE TrimRight(_)
TrimRight(s) == IF s # <<>> /\ IsSpace(Last(s)) THEN TrimRight(Front(s)) ELSE s

\* String.prototype.trim
Trim(s) == TrimRight(TrimLeft(s))

-----------------------------------------------------------------------------
(* Row Clustering Engine and Row-to-Day Extractor: parseDtrFromTesseractWords *)

\* parseDtr.ts 111
tol == 12

\* parseDtr.ts 135: /^(A\.?M\.?|P\.?M\.?|Arrival|Departure|Late|U-?Time|Mins\.?)$/i
HeaderLabels ==
  {<<"A", "M">>,
   <<"A", ".", "M">>,
   <<"A", "M", ".">>,
   <<"A", ".", "M", ".">>,
   <<"P", "M">>,
   <<"P", ".", "M">>,
   <<"P", "M", ".">>,
   <<"P", ".", "M", ".">>,
   <<"A", "R", "R", "I", "V", "A", "L">>,
   <<"D", "E", "P", "A", "R", "T", "U", "R", "E">>,
   <<"L", "A", "T", "E">>,
   <<"U", "T", "I", "M", "E">>,
   <<"U", "-", "T", "I", "M", "E">>,
   <<"M", "I", "N", "S">>,
   <<"M", "I", "N", "S", ".">>}

IsHeaderLabel(t) == toUpperCase(t) \in HeaderLabels

\* the separator group \s*[:.\s]\s* : not empty, at most one of ":" and "."
IsLooseSep(mid) ==
  /\ mid # <<>>
  /\ Cardinality({i \in 1..Len(mid) : mid[i] \in {":", "."}}) <= 1

RECURSIVE AllSpace(_)
AllSpace(s) == s = <<>> \/ (IsSpace(s[1]) /\ AllSpace(Tail(s)))

\* parseDtr.ts 29: timeCompactRe = /^(\d{1,2})\s*[:.\s]\s*(\d{2})(AM|PM)$/i
timeCompactRe(t) ==
  LET sh == TimeShape(t)
  IN  /\ Len(sh.hh) \in {1, 2}
      /\ IsLooseSep(sh.mid)
      /\ TwoDigits(sh.mm)
      /\ IsMeridiem(sh.rest)

\* parseDtr.ts 145: /^(\d{1,2})\s*[:.\s]\s*(\d{2})$/
bareTimeRe(t) ==
  LET sh == TimeShape(t)
  IN  /\ Len(sh.hh) \in {1, 2}
      /\ IsLooseSep(sh.mid)
      /\ TwoDigits(sh.mm)
      /\ sh.rest = <<>>

\* parseDtr.ts 28: timeTokenRe = /^(\d{1,2})\s*[:.\s]\s*(\d{2})\s*(AM|PM)$/i
timeTokenRe(t) ==
  LET sh == TimeShape(t)
  IN  /\ Len(sh.hh) \in {1, 2}
      /\ IsLooseSep(sh.mid)
      /\ TwoDigits(sh.mm)
      /\ Len(sh.rest) >= 2
      /\ IsMeridiem(Drop(sh.rest, Len(sh.rest) - 2))
      /\ AllSpace(Take(sh.rest, Len(sh.rest) - 2))

\* the (AM|PM) group of a timeCompactRe or timeTokenRe match
MeridiemGroup(t) == LET r == TimeShape(t).rest IN Drop(r, Len(r) - 2)

\* parseDtr.ts 169, 263: /^\d{1,2}$/
IsDayNumber(t) == Len(t) \in {1, 2} /\ \A i \in 1..Len(t) : IsDigit(t[i])

\* parseDtr.ts 92-100
cleanedWords(ws) ==
  LET trimmed == [i \in 1..Len(ws) |-> [ws[i] EXCEPT !.text = Trim(ws[i].text)]]
  IN  SelectSeq(trimmed, LAMBDA w : Len(w.text) > 0)

RECURSIVE MaxX1(_)
\* parseDtr.ts 102: cleanedWords.reduce((m, w) => Math.max(m, w.x1), 1)
MaxX1(ws) ==
  IF ws = <<>> THEN 1
  ELSE LET m == MaxX1(Front(ws)) IN IF Last(ws).x1 > m THEN Last(ws).x1 ELSE m

\* parseDtr.ts 103, 169: w.x0 <= maxX * 0.22
InDayColumn(w, maxX) == 100 * w.x0 <= 22 * maxX

\* parseDtr.ts 106-108: items sorted by yMid = (y0 + y1) / 2; the key is 2 * yMid
ItemsByYMid(ws) ==
  LET keyed == [i \in 1..Len(ws) |-> [key |-> ws[i].y0 + ws[i].y1, w |-> ws[i]]]
      sorted == SortByKey(keyed)
  IN  [i \in 1..Len(sorted) |-> sorted[i].w]

YMid2(w) == w.y0 + w.y1

Abs(n) == IF n < 0 THEN -n ELSE n

RECURSIVE ClustersFromFirst(_)
ClustersFromFirst(items) ==
  IF items = <<>> THEN <<>>
  ELSE LET prev == ClustersFromFirst(Front(items))
           it   == Last(items)
       IN  IF prev = <<>> THEN <<<<it>>>>
           ELSE LET last     == prev[Len(prev)]
                    firstMid == YMid2(last[1])
                IN  IF Abs(YMid2(it) - firstMid) <= 2 * tol
                    THEN [prev EXCEPT ![Len(prev)] = Append(last, it)]
                    ELSE Append(prev, <<it>>)

RECURSIVE Clusters(_)
\* parseDtr.ts 110-121: greedy chain clustering of the yMid-sorted items
Clusters(items) ==
  IF items = <<>> THEN <<>>
  ELSE LET prev == Clusters(Front(items))
           it   == Last(items)
       IN  IF prev = <<>> THEN <<<<it>>>>
           ELSE LET last    == prev[Len(prev)]
                    lastMid == YMid2(last[Len(last)])
                IN  IF Abs(YMid2(it) - lastMid) <= 2 * tol
                    THEN [prev EXCEPT ![Len(prev)] = Append(last, it)]
                    ELSE Append(prev, <<it>>)

\* parseDtr.ts 92-121: the clusters of the non-empty words
RowClusters(ws) == Clusters(ItemsByYMid(cleanedWords(ws)))

RowUnsorted(row) == row

\* parseDtr.ts 128: [...row].sort((a, b) => a.x0 - b.x0)
RowSorted(row) ==
  LET keyed == [i \in 1..Len(row) |-> [key |-> row[i].x0, w |-> row[i]]]
      sorted == SortByKey(keyed)
  IN  [i \in 1..Len(sorted) |-> sorted[i].w]

RECURSIVE CollectFromAnyMeridiem(_, _)
CollectFromAnyMeridiem(rs, i) ==
  IF i > Len(rs) THEN <<>>
  ELSE LET t    == rs[i].text
           sh   == TimeShape(t)
           next == IF i + 1 <= Len(rs) THEN rs[i + 1].text ELSE <<>>
       IN  IF IsHeaderLabel(t) THEN CollectFromAnyMeridiem(rs, i + 1)
           ELSE IF timeCompactRe(t)
             THEN <<normalizeTime(sh.hh, sh.mm, MeridiemGroup(t))>> \o CollectFromAnyMeridiem(rs, i + 1)
           ELSE IF bareTimeRe(t) /\ Len(next) >= 2 /\ IsMeridiem(Drop(next, Len(next) - 2))
             THEN <<normalizeTime(sh.hh, sh.mm, Drop(next, Len(next) - 2))>>
                    \o CollectFromAnyMeridiem(rs, i + 1)
           ELSE IF timeTokenRe(t)
             THEN <<normalizeTime(sh.hh, sh.mm, MeridiemGroup(t))>> \o CollectFromAnyMeridiem(rs, i + 1)
           ELSE CollectFromAnyMeridiem(rs, i + 1)

RECURSIVE CollectFrom(_, _)
\* parseDtr.ts 131-162: the scan loop from index i (1-based)
CollectFrom(rs, i) ==
  IF i > Len(rs) THEN <<>>
  ELSE LET t    == rs[i].text
           sh   == TimeShape(t)
           next == IF i + 1 <= Len(rs) THEN rs[i + 1].text ELSE <<>>
       IN  IF IsHeaderLabel(t) THEN CollectFrom(rs, i + 1)
           ELSE IF timeCompactRe(t)
             THEN <<normalizeTime(sh.hh, sh.mm, MeridiemGroup(t))>> \o CollectFrom(rs, i + 1)
           ELSE IF bareTimeRe(t) /\ IsMeridiem(next)
             THEN <<normalizeTime(sh.hh, sh.mm, next)>> \o CollectFrom(rs, i + 2)
           ELSE IF timeTokenRe(t)
             THEN <<normalizeTime(sh.hh, sh.mm, MeridiemGroup(t))>> \o CollectFrom(rs, i + 1)
           ELSE CollectFrom(rs, i + 1)

\* parseDtr.ts 127-165
collectTimesFromRow(row) == CollectFrom(RowSorted(row), 1)

\* Array.prototype.find: the first index whose element is a day cell, or 0
DayWordIndex(row, maxX) ==
  LET hits == {i \in 1..Len(row) : InDayColumn(row[i], maxX) /\ IsDayNumber(row[i].text)}
  IN  IF hits = {} THEN 0 ELSE CHOOSE i \in hits : \A j \in hits : i <= j

\* dayMap.set(day, prev.concat(times)): a Map keeps the insertion order of its keys
DayMapSet(dayMap, day, times) ==
  IF \E i \in 1..Len(dayMap) : dayMap[i].key = day
  THEN [i \in 1..Len(dayMap) |->
          IF dayMap[i].key = day
          THEN [dayMap[i] EXCEPT !.times = dayMap[i].times \o times]
          ELSE dayMap[i]]
  ELSE Append(dayMap, [key |-> day, times |-> times])

RECURSIVE DayMapOfKeepsEmpty(_, _)
DayMapOfKeepsEmpty(cls, maxX) ==
  IF cls = <<>> THEN <<>>
  ELSE LET dayMap == DayMapOfKeepsEmpty(Front(cls), maxX)
           row    == Last(cls)
           di     == DayWordIndex(row, maxX)
           day    == IF di = 0 THEN 0 ELSE Number(row[di].text)
       IN  IF di = 0 THEN dayMap
           ELSE IF day < 1 \/ day > 31 THEN dayMap
           ELSE DayMapSet(dayMap, day, collectTimesFromRow(row))

RECURSIVE DayMapOfNoRange(_, _)
DayMapOfNoRange(cls, maxX) ==
  IF cls = <<>> THEN <<>>
  ELSE LET dayMap == DayMapOfNoRange(Front(cls), maxX)
           row    == Last(cls)
           di     == DayWordIndex(row, maxX)
           day    == IF di = 0 THEN 0 ELSE Number(row[di].text)
           times  == collectTimesFromRow(row)
       IN  IF di = 0 THEN dayMap
           ELSE IF times = <<>> THEN dayMap
           ELSE DayMapSet(dayMap, day, times)

RECURSIVE DayMapOf(_, _)
\* parseDtr.ts 167-180: the loop over the clusters
DayMapOf(cls, maxX) ==
  IF cls = <<>> THEN <<>>
  ELSE LET dayMap == DayMapOf(Front(cls), maxX)
           row    == Last(cls)
           di     == DayWordIndex(row, maxX)
           day    == IF di = 0 THEN 0 ELSE Number(row[di].text)
           times  == collectTimesFromRow(row)
       IN  IF di = 0 THEN dayMap
           ELSE IF day < 1 \/ day > 31 THEN dayMap
           ELSE IF times = <<>> THEN dayMap
           ELSE DayMapSet(dayMap, day, times)

ResolveInOutSwapped(uniqueTimes) ==
  LET keyed  == [i \in 1..Len(uniqueTimes) |->
                   [t |-> uniqueTimes[i], key |-> timeToMinutesOfDay(uniqueTimes[i])]]
      sorted == SortByKey(SelectSeq(keyed, LAMBDA x : x.key # Null))
  IN  IF Len(sorted) >= 2
      THEN [inTime |-> Last(sorted).t, outTime |-> sorted[1].t]
      ELSE [inTime |-> Undefined, outTime |-> Undefined]

ResolveInOutFirstLast(uniqueTimes) ==
  LET keyed  == [i \in 1..Len(uniqueTimes) |->
                   [t |-> uniqueTimes[i], key |-> timeToMinutesOfDay(uniqueTimes[i])]]
      valid  == SelectSeq(keyed, LAMBDA x : x.key # Null)
  IN  IF Len(valid) >= 2
      THEN [inTime |-> valid[1].t, outTime |-> Last(valid).t]
      ELSE [inTime |-> Undefined, outTime |-> Undefined]

ResolveInOutAtLeastOne(uniqueTimes) ==
  LET keyed  == [i \in 1..Len(uniqueTimes) |->
                   [t |-> uniqueTimes[i], key |-> timeToMinutesOfDay(uniqueTimes[i])]]
      sorted == SortByKey(SelectSeq(keyed, LAMBDA x : x.key # Null))
  IN  IF Len(sorted) >= 1
      THEN [inTime |-> sorted[1].t, outTime |-> Last(sorted).t]
      ELSE [inTime |-> Undefined, outTime |-> Undefined]

\* parseDtr.ts 186-198: sort the valid readings by minutes, earliest = IN, latest = OUT
ResolveInOut(uniqueTimes) ==
  LET keyed  == [i \in 1..Len(uniqueTimes) |->
                   [t |-> uniqueTimes[i], key |-> timeToMinutesOfDay(uniqueTimes[i])]]
      sorted == SortByKey(SelectSeq(keyed, LAMBDA x : x.key # Null))
  IN  IF Len(sorted) >= 2
      THEN [inTime |-> sorted[1].t, outTime |-> Last(sorted).t]
      ELSE [inTime |-> Undefined, outTime |-> Undefined]

\* a DtrRow; an absent optional field is Undefined
DtrRow(day, amIn, amOut) ==
  [day |-> day, amIn |-> amIn, amOut |-> amOut, pmIn |-> Undefined, pmOut |-> Undefined]

\* parseDtr.ts 184-221: the body of the map over the sorted dayMap entries
WordsDay(entry, y, m0, allowed) ==
  LET Entry(uniqueTimes, io, wd) ==
        [debug |-> [day |-> entry.key, weekday |-> wd, inSchedule |-> wd \in allowed,
                    timesFound |-> entry.times, uniqueTimes |-> uniqueTimes,
                    inTime |-> io.inTime, outTime |-> io.outTime],
         row |-> IF io.inTime # Undefined /\ io.outTime # Undefined
                 THEN DtrRow(entry.key, io.inTime, io.outTime)
                 ELSE DtrRow(entry.key, Undefined, Undefined)]
  IN  Entry(Unique(entry.times), ResolveInOut(Unique(entry.times)),
            weekdayOfDate(y, m0, entry.key))

\* parseDtr.ts 82-234: result.rows and result.debug.days
parseDtrFromTesseractWords(ws, y, m0, allowed) ==
  LET Result(perDay) ==
        [rows |-> [i \in 1..Len(perDay) |-> perDay[i].row],
         days |-> [i \in 1..Len(perDay) |-> perDay[i].debug]]
      FromEntries(entries) ==
        Result([i \in 1..Len(entries) |-> WordsDay(entries[i], y, m0, allowed)])
      FromCleaned(cleaned) ==
        FromEntries(SortByKey(DayMapOf(Clusters(ItemsByYMid(cleaned)), MaxX1(cleaned))))
  IN  FromCleaned(cleanedWords(ws))

-----------------------------------------------------------------------------
(* Text-Layout Fallback Extractor: parseDtrFromPdfText *)

RECURSIVE CollapseSpaces(_)
\* parseDtr.ts 257: text.replace(/\s+/g, " ")
CollapseSpaces(s) ==
  IF s = <<>> THEN <<>>
  ELSE IF IsSpace(s[1])
    THEN <<" ">> \o CollapseSpaces(TrimLeft(s))
    ELSE <<s[1]>> \o CollapseSpaces(Tail(s))

\* \w
IsWordChar(c) ==
  \/ IsDigit(c)
  \/ c = "_"
  \/ \E i \in 1..26 : c = LowerAlpha[i] \/ c = UpperAlpha[i]

\* \b at the 0-based position p of s: between s[p] and s[p + 1]
WordBoundary(s, p) ==
  LET before == p >= 1 /\ IsWordChar(s[p])
      after  == p < Len(s) /\ IsWordChar(s[p + 1])
  IN  before # after

RECURSIVE SpacePrefixLen(_)
SpacePrefixLen(s) ==
  IF s = <<>> \/ ~IsSpace(s[1]) THEN 0 ELSE 1 + SpacePrefixLen(Tail(s))

\* parseDtr.ts 258: the lookahead \d{1,2}\s+(?:\d{1,2}[:.]\d{2}\s*(?:AM|PM)),
\* matched against r, the rest of the text (no i flag: AM / PM in capitals only)
DayRowAhead(r) ==
  LET d1 == DigitPrefixLen(r)
      r1 == Drop(r, d1)
      w1 == SpacePrefixLen(r1)
      r2 == Drop(r1, w1)
      d2 == DigitPrefixLen(r2)
      r3 == Drop(r2, d2)
      r4 == Drop(r3, 3)
      r5 == Drop(r4, SpacePrefixLen(r4))
  IN  /\ d1 \in {1, 2}
      /\ w1 >= 1
      /\ d2 \in {1, 2}
      /\ Len(r3) >= 3
      /\ r3[1] \in {":", "."}
      /\ IsDigit(r3[2]) /\ IsDigit(r3[3])
      /\ Len(r5) >= 2
      /\ Take(r5, 2) \in {AM, PM}

\* the 0-based positions at which String.prototype.split cuts: a zero-width
\* match at 0 or at the end cuts nothing
SplitPoints(s) ==
  {p \in 1..(Len(s) - 1) : WordBoundary(s, p) /\ DayRowAhead(Drop(s, p))}

RECURSIVE SplitAt(_, _, _)
\* the pieces of s from 0-based position p on, cut at the positions in pts
SplitAt(s, p, pts) ==
  LET later == {q \in pts : q > p}
  IN  IF later = {} THEN <<SubSeq(s, p + 1, Len(s))>>
      ELSE LET q == CHOOSE x \in later : \A z \in later : x <= z
           IN  <<SubSeq(s, p + 1, q)>> \o SplitAt(s, q, pts)

LinesUnsplit(t) == <<CollapseSpaces(t)>>

\* parseDtr.ts 256-258
Lines(t) ==
  LET s == CollapseSpaces(t)
  IN  SplitAt(s, 0, SplitPoints(s))

\* String.prototype.startsWith
StartsWith(s, prefix) == Len(s) >= Len(prefix) /\ Take(s, Len(prefix)) = prefix

FindChunkLast(lines, day) ==
  LET hits == {i \in 1..Len(lines) : StartsWith(Trim(lines[i]), String(day) \o <<" ">>)}
  IN  IF hits = {} THEN Undefined
      ELSE lines[CHOOSE i \in hits : \A j \in hits : j <= i]

\* parseDtr.ts 265: lines.find(ln => ln.trim().startsWith(String(day) + " ")), or Undefined
FindChunk(lines, day) ==
  LET hits == {i \in 1..Len(lines) : StartsWith(Trim(lines[i]), String(day) \o <<" ">>)}
  IN  IF hits = {} THEN Undefined
      ELSE lines[CHOOSE i \in hits : \A j \in hits : i <= j]

\* parseDtr.ts 252: timeRe = /\b(\d{1,2})\s*[:.]\s*(\d{2})\s*(AM|PM)\b/gi matched
\* at the 0-based position p of chunk
TimeReAt(chunk, p) ==
  LET r   == Drop(chunk, p)
      d1  == DigitPrefixLen(r)
      r1  == Drop(r, d1)
      r2  == Drop(r1, SpacePrefixLen(r1))
      r3  == Drop(r2, 1)
      r4  == Drop(r3, SpacePrefixLen(r3))
      r5  == Drop(r4, 2)
      r6  == Drop(r5, SpacePrefixLen(r5))
      e   == Len(chunk) - Len(r6) + 2
      ok  == /\ WordBoundary(chunk, p)
             /\ d1 \in {1, 2}
             /\ r2 # <<>> /\ r2[1] \in {":", "."}
             /\ TwoDigits(Take(r4, 2))
             /\ Len(r6) >= 2 /\ IsMeridiem(Take(r6, 2))
             /\ WordBoundary(chunk, e)
  IN  [ok |-> ok, hh |-> Take(r, d1), mm |-> Take(r4, 2), ap |-> Take(r6, 2), end |-> e]

RECURSIVE ExecAll(_, _)
\* parseDtr.ts 270-272: while ((m = timeRe.exec(chunk)) !== null) from lastIndex p
ExecAll(chunk, p) ==
  IF p >= Len(chunk) THEN <<>>
  ELSE LET m == TimeReAt(chunk, p)
       IN  IF m.ok
           THEN <<normalizeTime(m.hh, m.mm, m.ap)>> \o ExecAll(chunk, m.end)
           ELSE ExecAll(chunk, p + 1)

RECURSIVE ExecFirstEnd(_, _)
\* the end of the first match of timeRe in chunk from p on, or 0 (exec resets a failed search)
ExecFirstEnd(chunk, p) ==
  IF p >= Len(chunk) THEN 0
  ELSE LET m == TimeReAt(chunk, p)
       IN  IF m.ok THEN m.end ELSE ExecFirstEnd(chunk, p + 1)

ScanChunkFirstOnly(chunk, lastIndex) ==
  LET all == ExecAll(chunk, lastIndex)
  IN  [times |-> IF all = <<>> THEN <<>> ELSE <<all[1]>>,
       lastIndex |-> ExecFirstEnd(chunk, lastIndex)]

\* parseDtr.ts 269-273: the scan of one chunk by the regex object whose
\* lastIndex is given; the failed exec that ends the loop, and line 273, reset it
ScanChunk(chunk, lastIndex) ==
  [times |-> ExecAll(chunk, lastIndex), lastIndex |-> 0]

ResolveInOutTextUnsorted(uniqueTimes) ==
  IF Len(uniqueTimes) >= 2
  THEN [inTime |-> uniqueTimes[1], outTime |-> Last(uniqueTimes)]
  ELSE [inTime |-> Undefined, outTime |-> Undefined]

\* parseDtr.ts 281-295: as ResolveInOut, entered only with >= 2 unique readings
ResolveInOutText(uniqueTimes) ==
  IF Len(uniqueTimes) >= 2
  THEN LET keyed  == [i \in 1..Len(uniqueTimes) |->
                        [t |-> uniqueTimes[i], key |-> timeToMinutes(uniqueTimes[i])]]
           sorted == SortByKey(SelectSeq(keyed, LAMBDA x : x.key # Null))
       IN  IF Len(sorted) >= 2
           THEN [inTime |-> sorted[1].t, outTime |-> Last(sorted).t]
           ELSE [inTime |-> Undefined, outTime |-> Undefined]
  ELSE [inTime |-> Undefined, outTime |-> Undefined]

\* parseDtr.ts 263
LastDay == 31

\* the days of 1..LastDay for which line 265 finds a chunk
ChunkDays(lines) == {d \in 1..LastDay : FindChunk(lines, d) # Undefined}

RECURSIVE LastIndexBefore(_, _, _)
\* timeRe.lastIndex when the loop reaches day: 0 for the regex object the call
\* creates at line 252, else what the scan of the latest earlier day with a
\* chunk left (an iteration without a chunk does not touch the regex)
LastIndexBefore(lines, chunkDays, day) ==
  LET earlier == {e \in chunkDays : e < day}
  IN  IF earlier = {} THEN 0
      ELSE LET e == CHOOSE x \in earlier : \A z \in earlier : z <= x
           IN  ScanChunk(FindChunk(lines, e), LastIndexBefore(lines, chunkDays, e)).lastIndex

\* parseDtr.ts 264-301: one iteration of the loop over the days
PdfDay(lines, chunkDays, day, y, m0, allowed) ==
  LET Entry(timesFound, uniqueTimes, io, wd) ==
        [debug |-> [day |-> day, weekday |-> wd, inSchedule |-> wd \in allowed,
                    timesFound |-> timesFound, uniqueTimes |-> uniqueTimes,
                    inTime |-> io.inTime, outTime |-> io.outTime],
         hasRow |-> io.inTime # Undefined /\ io.outTime # Undefined,
         row |-> DtrRow(day, io.inTime, io.outTime)]
      FromUnique(timesFound, uniqueTimes) ==
        Entry(timesFound, uniqueTimes, ResolveInOutText(uniqueTimes), weekdayOfDate(y, m0, day))
      FromTimes(timesFound) == FromUnique(timesFound, Unique(timesFound))
      FromChunk(chunk) ==
        FromTimes(IF chunk # Undefined
                  THEN ScanChunk(chunk, LastIndexBefore(lines, chunkDays, day)).times
                  ELSE <<>>)
  IN  FromChunk(FindChunk(lines, day))

\* parseDtr.ts 240-317: result.rows, result.debug.days, and the lastIndex at
\* which each chunk scan of the call began
parseDtrFromPdfText(t, y, m0, allowed) ==
  LET Pushed(rs) == [i \in 1..Len(rs) |-> rs[i].row]
      Result(perDay, starts) ==
        [rows |-> Pushed(SelectSeq(perDay, LAMBDA x : x.hasRow)),
         days |-> [d \in 1..LastDay |-> perDay[d].debug],
         scanStarts |-> starts]
      FromChunkDays(lines, chunkDays) ==
        Result([d \in 1..LastDay |-> PdfDay(lines, chunkDays, d, y, m0, allowed)],
               {LastIndexBefore(lines, chunkDays, d) : d \in chunkDays})
      FromLines(lines) == FromChunkDays(lines, ChunkDays(lines))
  IN  FromLines(Lines(t))

-----------------------------------------------------------------------------
(* ScheduleBuilder: the handlers of the schedule form *)

\* ScheduleBuilder.tsx 35: .sort((a, b) => a.weekday - b.weekday)
SortByWeekday(items) ==
  LET keyed == [i \in 1..Len(items) |-> [item |-> items[i], key |-> items[i].weekday]]
      Items(sorted) == [i \in 1..Len(sorted) |-> sorted[i].item]
  IN  Items(SortByKey(keyed))

addScheduleKeepsOld(items, w, s, e) ==
  IF s = "" \/ e = "" THEN items
  ELSE SortByWeekday(Append(items, [weekday |-> w, start |-> s, end |-> e]))

\* ScheduleBuilder.tsx 28-38: the items after addSchedule with the form
\* fields w, s, e
addSchedule(items, w, s, e) ==
  IF s = "" \/ e = "" THEN items
  ELSE LET without == SelectSeq(items, LAMBDA i : i.weekday # w)
       IN  SortByWeekday(Append(without, [weekday |-> w, start |-> s, end |-> e]))

\* ScheduleBuilder.tsx 40-42
removeDay(items, w) == SelectSeq(items, LAMBDA i : i.weekday # w)

\* ScheduleBuilder.tsx 44-46
clearAll(items) == <<>>

-----------------------------------------------------------------------------
(* Scan queue: app.tsx *)

\* an absent note
NoNote == "<undefined>"

\* { ...x, ...patch }
Spread(x, patch) == [f \in DOMAIN x |-> IF f \in DOMAIN patch THEN patch[f] ELSE x[f]]

\* app.tsx 184-188: the queue after setStatus(filePath, patch)
setStatus(q, filePath, patch) ==
  [i \in 1..Len(q) |-> IF q[i].filePath = filePath THEN Spread(q[i], patch) ELSE q[i]]

\* app.tsx 180: .sort((a, b) => b.createdAt - a.createdAt)
SortNewestFirst(q) ==
  LET keyed == [i \in 1..Len(q) |-> [item |-> q[i], key |-> 0 - q[i].createdAt]]
      Items(sorted) == [i \in 1..Len(sorted) |-> sorted[i].item]
  IN  Items(SortByKey(keyed))

\* app.tsx 172-182: the queue after upsertQueue(item); item carries every
\* field but totalMinutes
upsertQueue(q, item) ==
  LET hits == {i \in 1..Len(q) : q[i].filePath = item.filePath}
      Merged(i) == [q EXCEPT ![i] = Spread(q[i], item)]
  IN  IF hits # {} THEN Merged(CHOOSE i \in hits : \A j \in hits : i <= j)
      ELSE SortNewestFirst(<<[filePath |-> item.filePath, createdAt |-> item.createdAt,
                              status |-> item.status, note |-> item.note,
                              totalMinutes |-> Null]>> \o q)

\* app.tsx 306-313: the queue after removeFromQueue(filePath); the call of
\* setStatusMap, which the file does not define, throws after the update of
\* the queue and inside the try of line 244
removeFromQueue(q, filePath) == SelectSeq(q, LAMBDA x : x.filePath # filePath)

unblockAll(q) ==
  [i \in 1..Len(q) |-> Spread(q[i], [status |-> "READY", note |-> NoNote])]

\* app.tsx 150-156: the update of the effect that runs when the schedule changes
unblock(q) ==
  [i \in 1..Len(q) |->
     IF q[i].status = "PENDING_SCHEDULE"
     THEN Spread(q[i], [status |-> "READY", note |-> NoNote])
     ELSE q[i]]

\* app.tsx 359: queue.find(q => q.status === "READY"), as an index, or 0
FirstReady(q) ==
  LET hits == {i \in 1..Len(q) : q[i].status = "READY"}
  IN  IF hits = {} THEN 0 ELSE CHOOSE i \in hits : \A j \in hits : i <= j

\* app.tsx 270-275: the file paths of the items reprocessPending walks
PendingPaths(q) ==
  LET pend == SelectSeq(q, LAMBDA x : x.status \in {"PENDING_SCHEDULE", "READY", "FAILED"})
  IN  [i \in 1..Len(pend) |-> pend[i].filePath]

-----------------------------------------------------------------------------
(* Values of the variables a specification does not use *)

\* app.tsx 70-71: the month and year the extractors are called with by default
DefaultYear == 2025
DefaultMonthIndex0 == 11

NoResult == [totalMinutes |-> Null, perDay |-> <<>>]
NoProbe == [kind |-> "none", words |-> <<>>, text |-> <<>>, rows |-> <<>>, between |-> FALSE]

TimeIdle ==
  /\ hh = <<>> /\ mm = <<>> /\ ap = <<>>
  /\ canon = Undefined /\ mins = Null /\ aggMins = Null

DiffIdle == start = Undefined /\ end = Undefined /\ diff = 0

ExtIdle ==
  /\ words = <<>> /\ text = <<>> /\ days = <<>>
  /\ scanStarts = {} /\ clusters = <<>> /\ probe = NoProbe

ResolveIdle == dayTimes = <<>> /\ resolved = <<>>

NoReprocess == [pend |-> <<>>, waiting |-> FALSE]

QueueIdle ==
  /\ queue = <<>> /\ processingRef = FALSE /\ procs = {}
  /\ effects = {} /\ reprocess = NoReprocess

OtherIdle == ResolveIdle /\ QueueIdle

AggIdle ==
  /\ schedule = <<>> /\ weekday = 1 /\ year = DefaultYear /\ monthIndex0 = DefaultMonthIndex0
  /\ result = NoResult

-----------------------------------------------------------------------------
(* SpecTime: normalizeTime, then the two minute conversions, on every       *)
(* (hour, minute, meridiem) capture a time regex of the source can deliver  *)

\* (\d{1,2}) with a value up to 19, with and without a leading zero
HourStrings ==
  {<<a>> : a \in Digit} \cup {<<a, b>> : a \in {"0", "1"}, b \in Digit}

\* (\d{2})
MinuteStrings == {<<a, b>> : a \in Digit, b \in Digit}

\* (AM|PM) under the i flag
MeridiemStrings == {AM, PM, <<"a", "m">>, <<"p", "m">>}

InitTime ==
  /\ OtherIdle
  /\ op = "input"
  /\ hh \in HourStrings /\ mm \in MinuteStrings /\ ap \in MeridiemStrings
  /\ canon = Undefined /\ mins = Null /\ aggMins = Null
  /\ DiffIdle /\ ExtIdle /\ AggIdle /\ rows = <<>>

NormalizeTime ==
  /\ op = "input"
  /\ canon' = normalizeTime(hh, mm, ap)
  /\ op' = "normalizeTime"
  /\ UNCHANGED <<otherVars, hh, mm, ap, mins, aggMins, diffVars, extVars, rows, aggVars>>

TimeToMinutesOfDay ==
  /\ op = "normalizeTime"
  /\ mins' = timeToMinutesOfDay(canon)
  /\ op' = "timeToMinutesOfDay"
  /\ UNCHANGED <<otherVars, hh, mm, ap, canon, aggMins, diffVars, extVars, rows, aggVars>>

ParseTimeToMinutes ==
  /\ op = "timeToMinutesOfDay"
  /\ aggMins' = parseTimeToMinutes(canon)
  /\ op' = "parseTimeToMinutes"
  /\ UNCHANGED <<otherVars, hh, mm, ap, canon, mins, diffVars, extVars, rows, aggVars>>

NextTime == NormalizeTime \/ TimeToMinutesOfDay \/ ParseTimeToMinutes

SpecTime == InitTime /\ [][NextTime]_vars

-----------------------------------------------------------------------------
(* Claims about the time conversions (SpecTime) *)

\* the hour and minute of the captured triple are those of a TimeOfDay
ValidTriple == Number(hh) \in 1..12 /\ Number(mm) \in 0..59

\* the minutes-of-day rule as the claim words it
RuleMinutes(h, m, a) ==
  IF a = AM
  THEN (IF h = 12 THEN m ELSE 60 * h + m)
  ELSE (IF h = 12 THEN 720 + m ELSE 60 * h + 720 + m)

\* "{hour}:{minute:02} {AM|PM}" for hour in 1..12 and minute in 0..59
CanonicalString(h, m, a) ==
  (IF h < 10 THEN <<DigitChar(h)>> ELSE <<"1", DigitChar(h - 10)>>)
    \o <<":", DigitChar(m \div 10), DigitChar(m % 10), " ">> \o a

\* the canonical string re-derived from a minutes-of-day value in 0..1439
FromMinutes(v) ==
  LET h24 == v \div 60
      h12 == IF h24 % 12 = 0 THEN 12 ELSE h24 % 12
  IN  CanonicalString(h12, v % 60, IF h24 < 12 THEN AM ELSE PM)

\* C7: for every hour 1..12, minute 0..59 and meridiem, both minute
\* conversions of the canonical string return minute for 12 AM, 60*hour+minute
\* for the other AM hours, 720+minute for 12 PM and 60*hour+720+minute for the
\* other PM hours.
C7_MinutesRule ==
  (op = "parseTimeToMinutes" /\ ValidTriple) =>
     LET expected == RuleMinutes(Number(hh), Number(mm), toUpperCase(ap))
     IN  mins = expected /\ aggMins = expected

C7_Witness ==
  /\ op = "parseTimeToMinutes"
  /\ canon = <<"1", "2", ":", "3", "0", " ", "P", "M">>
  /\ mins = 750 /\ aggMins = 750

\* C8: on the valid triples normalizeTime followed by timeToMinutesOfDay is a
\* bijection onto 0..1439: the value lies in 0..1439 and the canonical string
\* re-derived from it is the string that was converted (FromMinutes is one to
\* one on 0..1439, so the 1440 canonical strings take 1440 different values);
\* 12:00 AM is 0, 12:00 PM is 720, 11:59 PM is 1439; an hour written with a
\* leading zero gives the canonical string of the unpadded hour.
C8_RoundTrip ==
  (op \in {"timeToMinutesOfDay", "parseTimeToMinutes"} /\ ValidTriple) =>
     /\ mins \in 0..1439
     /\ FromMinutes(mins) = canon
     /\ canon = CanonicalString(Number(hh), Number(mm), toUpperCase(ap))
     /\ (canon = <<"1", "2", ":", "0", "0", " ", "A", "M">>) <=> (mins = 0)
     /\ (canon = <<"1", "2", ":", "0", "0", " ", "P", "M">>) <=> (mins = 720)
     /\ (canon = <<"1", "1", ":", "5", "9", " ", "P", "M">>) <=> (mins = 1439)

C8_Witness ==
  /\ op = "timeToMinutesOfDay"
  /\ hh = <<"0", "7">> /\ mm = <<"0", "5">> /\ ap = <<"p", "m">>
  /\ canon = <<"7", ":", "0", "5", " ", "P", "M">>
  /\ mins = 1145

-----------------------------------------------------------------------------
(* SpecDiff: diffMinutes on pairs of time strings, well formed or not *)

\* hours 1..12, a spread of minutes, both meridiems: the canonical strings
DiffMinuteValues == {0, 2, 10, 15, 50, 59}

WellFormedTimes ==
  {CanonicalString(h, m, a) : h \in 1..12, m \in DiffMinuteValues, a \in {AM, PM}}
  \cup {<<"0", "6", ":", "2", "4", " ", "A", "M">>, <<"6", ":", "2", "4", "A", "M">>, <<"6", ":", "2", "4", " ", "p", "m">>, <<"1", "1", ":", "5", "0", " ", "P", "M">>, <<"1", "2", ":", "1", "0", " ", "A", "M">>}

\* strings parseTimeToMinutes must reject: hour or minute out of range, a
\* separator other than ":", no meridiem, two spaces, no digits, empty
MalformedTimes ==
  {<<"1", "3", ":", "0", "0", " ", "P", "M">>,
   <<"0", ":", "3", "0", " ", "A", "M">>,
   <<"7", ":", "6", "0", " ", "A", "M">>,
   <<"7", ".", "5", "8", " ", "A", "M">>,
   <<"7", ":", "5", "8">>,
   <<"7", ":", "5", "8", " ", " ", "A", "M">>,
   <<"A", "M">>,
   <<>>}

TimeArgs == WellFormedTimes \cup MalformedTimes \cup {Undefined}

InitDiff ==
  /\ OtherIdle
  /\ op = "input"
  /\ start \in TimeArgs /\ end \in TimeArgs
  /\ diff = 0
  /\ TimeIdle /\ ExtIdle /\ AggIdle /\ rows = <<>>

DiffMinutes ==
  /\ op = "input"
  /\ diff' = diffMinutes(start, end)
  /\ op' = "diffMinutes"
  /\ UNCHANGED <<otherVars, start, end, timeVars, extVars, rows, aggVars>>

NextDiff == DiffMinutes

SpecDiff == InitDiff /\ [][NextDiff]_vars

\* C6: for valid start and end, diffMinutes is end - start when
\* minutes(end) >= minutes(start) and (1440 - minutes(start)) + minutes(end)
\* otherwise; the result lies in 0..1439 (11:50 PM to 12:10 AM gives 20).
C6_DiffMinutes ==
  (op = "diffMinutes" /\ start \in WellFormedTimes /\ end \in WellFormedTimes) =>
     LET s == parseTimeToMinutes(start)
         e == parseTimeToMinutes(end)
     IN  /\ s \in 0..1439 /\ e \in 0..1439
         /\ diff = (IF e >= s THEN e - s ELSE (1440 - s) + e)
         /\ diff \in 0..1439
         /\ (start = <<"1", "1", ":", "5", "0", " ", "P", "M">> /\ end = <<"1", "2", ":", "1", "0", " ", "A", "M">>) => diff = 20

C6_Witness ==
  /\ op = "diffMinutes"
  /\ start = <<"1", "1", ":", "5", "0", " ", "P", "M">> /\ end = <<"1", "2", ":", "1", "0", " ", "A", "M">>
  /\ diff = 20

-----------------------------------------------------------------------------
(* SpecAgg: computeTotalMinutes on lists of rows, a schedule and a month *)

\* the longest list of rows handed to computeTotalMinutes
MaxRows == 2

AggDays == {3, 8}

\* (amIn, amOut): absent, a day shift, a shift across midnight, an hour out of
\* range, a missing out-time
AmPairs ==
  {<<Undefined, Undefined>>,
   <<<<"6", ":", "1", "5", " ", "A", "M">>, <<"5", ":", "0", "2", " ", "P", "M">>>>,
   <<<<"1", "1", ":", "5", "0", " ", "P", "M">>, <<"1", "2", ":", "1", "0", " ", "A", "M">>>>,
   <<<<"1", "3", ":", "0", "0", " ", "P", "M">>, <<"5", ":", "0", "2", " ", "P", "M">>>>,
   <<<<"6", ":", "1", "5", " ", "A", "M">>, Undefined>>}

\* (pmIn, pmOut): absent, an afternoon shift, a minute out of range
PmPairs ==
  {<<Undefined, Undefined>>,
   <<<<"1", ":", "0", "0", " ", "P", "M">>, <<"5", ":", "0", "0", " ", "P", "M">>>>,
   <<<<"1", ":", "0", "0", " ", "P", "M">>, <<"1", ":", "6", "0", " ", "P", "M">>>>}

AggRows ==
  {[day |-> d, amIn |-> a[1], amOut |-> a[2], pmIn |-> p[1], pmOut |-> p[2]] :
     d \in AggDays, a \in AmPairs, p \in PmPairs}

AggRowLists == UNION {[1..n -> AggRows] : n \in 0..MaxRows}

\* a ScheduleState.items with the given weekdays, as ScheduleBuilder writes them
ScheduleOf(weekdays) ==
  [i \in 1..Len(weekdays) |-> [weekday |-> weekdays[i], start |-> "07:00", end |-> "17:00"]]

\* Monday to Friday, and no schedule
Schedules == {ScheduleOf(<<1, 2, 3, 4, 5>>), ScheduleOf(<<>>)}

\* June 2025 (the 3rd is a Tuesday, the 8th a Sunday) and August 2025 (the 3rd
\* is a Sunday, the 8th a Friday)
AggMonths == {<<2025, 5>>, <<2025, 7>>}

InitAgg ==
  /\ OtherIdle
  /\ op = "input"
  /\ rows \in AggRowLists
  /\ schedule \in Schedules /\ weekday = 1
  /\ \E ym \in AggMonths : year = ym[1] /\ monthIndex0 = ym[2]
  /\ result = NoResult
  /\ TimeIdle /\ DiffIdle /\ ExtIdle

ComputeTotalMinutes ==
  /\ op = "input"
  /\ result' = computeTotalMinutes(rows, schedule, year, monthIndex0)
  /\ op' = "computeTotalMinutes"
  /\ UNCHANGED <<otherVars, timeVars, diffVars, extVars, rows, schedule, weekday, year, monthIndex0>>

NextAgg == ComputeTotalMinutes

SpecAgg == InitAgg /\ [][NextAgg]_vars

\* values[1] + ... + values[n]
RECURSIVE SumOver(_, _)
SumOver(values, n) ==
  IF n = 0 THEN 0 ELSE SumOver(values, n - 1) + values[n]

\* the worked duration of a pair as the claims word it: 0 unless both times are
\* well formed, else out - in, plus a day when out is before in
PairDuration(tin, tout) ==
  IF tin \in WellFormedTimes /\ tout \in WellFormedTimes
  THEN LET sh1 == TimeShape(tin)
           sh2 == TimeShape(tout)
           s == RuleMinutes(Number(sh1.hh), Number(sh1.mm), ClockMeridiem(tin))
           e == RuleMinutes(Number(sh2.hh), Number(sh2.mm), ClockMeridiem(tout))
       IN  IF e >= s THEN e - s ELSE (1440 - s) + e
  ELSE 0

RowDuration(r) == PairDuration(r.amIn, r.amOut) + PairDuration(r.pmIn, r.pmOut)

\* C4: a row whose weekday is not among the schedule's weekdays has inSchedule
\* false and counted minutes 0 and adds nothing to totalMinutes, while its
\* rawMinutes is the worked duration of the row; a row whose weekday is in the
\* schedule counts its rawMinutes.
C4_ScheduleFilter ==
  op = "computeTotalMinutes" =>
    LET pd == result.perDay
        allowed == {schedule[i].weekday : i \in 1..Len(schedule)}
        counted == [i \in 1..Len(rows) |->
                      IF weekdayOfDate(year, monthIndex0, rows[i].day) \in allowed
                      THEN RowDuration(rows[i]) ELSE 0]
    IN  /\ Len(pd) = Len(rows)
        /\ \A i \in 1..Len(rows) :
             /\ pd[i].inSchedule =
                  (weekdayOfDate(year, monthIndex0, rows[i].day) \in allowed)
             /\ pd[i].rawMinutes = RowDuration(rows[i])
             /\ ~pd[i].inSchedule => pd[i].minutes = 0
             /\ pd[i].inSchedule => pd[i].minutes = pd[i].rawMinutes
        /\ result.totalMinutes = SumOver(counted, Len(rows))

\* June 2025 under Mon..Fri: Tuesday the 3rd counts, Sunday the 8th does not
C4_Witness ==
  /\ op = "computeTotalMinutes"
  /\ year = 2025 /\ monthIndex0 = 5
  /\ Len(rows) = 2
  /\ rows[1].day = 3 /\ rows[2].day = 8
  /\ result.perDay[1].weekday = 2 /\ result.perDay[1].inSchedule
  /\ result.perDay[1].minutes = 647
  /\ result.perDay[2].weekday = 0 /\ ~result.perDay[2].inSchedule
  /\ result.perDay[2].minutes = 0 /\ result.perDay[2].rawMinutes = 647
  /\ result.totalMinutes = 647

\* C5: totalMinutes is the sum of the counted minutes of the perDay entries,
\* there is one perDay entry per input row, in input order, and
\* 0 <= totalMinutes <= the sum of the rawMinutes.
C5_TotalIsSum ==
  op = "computeTotalMinutes" =>
    LET pd == result.perDay
        counted == [i \in 1..Len(pd) |-> pd[i].minutes]
        raw == [i \in 1..Len(pd) |-> pd[i].rawMinutes]
    IN  /\ Len(pd) = Len(rows)
        /\ \A i \in 1..Len(rows) : pd[i].day = rows[i].day
        /\ result.totalMinutes = SumOver(counted, Len(pd))
        /\ 0 <= result.totalMinutes
        /\ result.totalMinutes <= SumOver(raw, Len(pd))

C5_Witness ==
  /\ op = "computeTotalMinutes"
  /\ Len(rows) = 2
  /\ rows[1].day = 8 /\ rows[2].day = 3
  /\ result.perDay[1].day = 8 /\ result.perDay[1].rawMinutes = 20
  /\ result.perDay[1].minutes = 0
  /\ result.perDay[2].day = 3 /\ result.perDay[2].minutes = 887
  /\ result.totalMinutes = 887

\* C10: a pair in which either time is missing or malformed contributes 0, the
\* other pair of the row still contributes its own duration, and the call
\* returns an entry for every row.
C10_MalformedPairIsZero ==
  op = "computeTotalMinutes" =>
    /\ Len(result.perDay) = Len(rows)
    /\ result.totalMinutes # Null
    /\ \A i \in 1..Len(rows) :
         LET r == rows[i]
             amBad == r.amIn \notin WellFormedTimes \/ r.amOut \notin WellFormedTimes
             pmBad == r.pmIn \notin WellFormedTimes \/ r.pmOut \notin WellFormedTimes
             raw == result.perDay[i].rawMinutes
         IN  /\ amBad => raw = PairDuration(r.pmIn, r.pmOut)
             /\ pmBad => raw = PairDuration(r.amIn, r.amOut)
             /\ (amBad /\ pmBad) => raw = 0

\* an hour of 13 in the morning pair, a good afternoon pair: 240 minutes
C10_Witness ==
  /\ op = "computeTotalMinutes"
  /\ Len(rows) = 1
  /\ rows[1].amIn = <<"1", "3", ":", "0", "0", " ", "P", "M">> /\ rows[1].amOut = <<"5", ":", "0", "2", " ", "P", "M">>
  /\ rows[1].pmIn = <<"1", ":", "0", "0", " ", "P", "M">> /\ rows[1].pmOut = <<"5", ":", "0", "0", " ", "P", "M">>
  /\ result.perDay[1].rawMinutes = 240

-----------------------------------------------------------------------------
(* SpecExtract: one call of an extractor on every input of a bounded set    *)

MaxWords == 3

MaxPieces == 3

\* a Tesseract word with its bounding box
Word(t, x0, x1, y0, y1) == [text |-> t, x0 |-> x0, x1 |-> x1, y0 |-> y0, y1 |-> y1]

\* rows A (y 100..112) and B (y 130..140) are more than tol apart
WordBoxes ==
  {\* the day cell of row A
   Word(<<"1", "4">>, 2, 8, 100, 110),
   \* a spaced reading in row A, left of the bare time
   Word(<<"1", "0", ":", "5", "2", " ", "P", "M">>, 12, 19, 100, 110),
   \* a bare time in row A ...
   Word(<<"1", "0", ":", "5", "2">>, 20, 32, 100, 110),
   \* ... and the meridiem fragment that follows it, a little lower
   Word(<<"P", "M">>, 40, 50, 102, 112),
   \* a spaced reading at the right of row A
   Word(<<"7", ":", "1", "5", " ", "A", "M">>, 60, 90, 100, 110),
   \* a column header in row A
   Word(<<"A", "r", "r", "i", "v", "a", "l">>, 55, 58, 100, 110),
   \* the day cell of row B, the same day again
   Word(<<"1", "4">>, 3, 9, 130, 140),
   \* a compact reading in row B
   Word(<<"6", ":", "3", "0", "A", "M">>, 20, 45, 130, 140),
   \* a blank word: dropped by cleanedWords, whatever its box
   Word(<<" ">>, 0, 400, 130, 140)}

\* day 14 in two rows, a reading in each: in row B the compact 6:30AM, or
\* 7:15AM, which row A has as 7:15 AM
TwoRowLists ==
  {<<Word(<<"1", "4">>, 2, 8, 100, 110), a, Word(<<"1", "4">>, 3, 9, 130, 140), b>> :
     a \in {Word(<<"7", ":", "1", "5", " ", "A", "M">>, 60, 90, 100, 110),
            Word(<<"1", "0", ":", "5", "2", " ", "P", "M">>, 12, 19, 100, 110)},
     b \in {Word(<<"6", ":", "3", "0", "A", "M">>, 20, 45, 130, 140),
            Word(<<"7", ":", "1", "5", "A", "M">>, 20, 45, 130, 140)}}

WordLists == UNION {[1..n -> WordBoxes] : n \in 0..MaxWords} \cup TwoRowLists

\* a day number followed by a reading: where line 258 starts a new chunk
DayRowPieces ==
  {<<"9", " ", "0", "7", ":", "5", "8", " ", "A", "M">>,
   <<"1", "0", " ", "0", "5", ":", "1", "0", " ", "P", "M">>}

ReadingPieces ==
  {<<"0", "5", ":", "1", "0", " ", "P", "M">>,
   \* with a dot and a lower-case meridiem
   <<"7", ".", "3", "0", " ", "p", "m">>,
   \* the first day row's reading again, written without the space
   <<"0", "7", ":", "5", "8", "A", "M">>}

TextPieces == DayRowPieces \cup ReadingPieces \cup {<<"9">>}

RECURSIVE Join(_)
\* the pieces of a text, one space between them
Join(ps) ==
  IF ps = <<>> THEN <<>>
  ELSE IF Len(ps) = 1 THEN ps[1]
  ELSE ps[1] \o <<" ">> \o Join(Tail(ps))

Texts == {Join(ps) : ps \in UNION {[1..n -> TextPieces] : n \in 0..MaxPieces}}

InitExtract ==
  /\ OtherIdle
  /\ \/ op = "words" /\ words \in WordLists /\ text = <<>>
     \/ op = "text" /\ text \in Texts /\ words = <<>>
  /\ rows = <<>> /\ days = <<>> /\ scanStarts = {} /\ clusters = <<>> /\ probe = NoProbe
  /\ TimeIdle /\ DiffIdle /\ AggIdle

\* app.tsx 480: the OCR path
ParseDtrFromTesseractWords ==
  /\ op = "words"
  /\ \E r \in {parseDtrFromTesseractWords(words, year, monthIndex0, AllowedWeekdays(schedule))} :
       rows' = r.rows /\ days' = r.days
  /\ clusters' = RowClusters(words)
  /\ op' = "parseDtrFromTesseractWords"
  /\ UNCHANGED <<otherVars, timeVars, diffVars, words, text, scanStarts, probe, aggVars>>

\* app.tsx 400: the text-layer path
ParseDtrFromPdfText ==
  /\ op = "text"
  /\ \E r \in {parseDtrFromPdfText(text, year, monthIndex0, AllowedWeekdays(schedule))} :
       rows' = r.rows /\ days' = r.days /\ scanStarts' = r.scanStarts
  /\ clusters' = <<>>
  /\ op' = "parseDtrFromPdfText"
  /\ UNCHANGED <<otherVars, timeVars, diffVars, words, text, probe, aggVars>>

NextExtract == ParseDtrFromTesseractWords \/ ParseDtrFromPdfText

SpecExtract == InitExtract /\ [][NextExtract]_vars

-----------------------------------------------------------------------------
(* Claims about the extractors (SpecExtract) *)

Extracted == op \in {"parseDtrFromTesseractWords", "parseDtrFromPdfText"}

\* the distinct valid readings of a debug day
ValidReadings(d) ==
  {t \in {d.timesFound[i] : i \in 1..Len(d.timesFound)} : timeToMinutesOfDay(t) # Null}

Designated(r) == r.amIn # Undefined /\ r.amOut # Undefined

Bare(r) == r.amIn = Undefined /\ r.amOut = Undefined

\* C1: every returned row carries both an in-time and an out-time with
\* minutes(in) <= minutes(out), or carries neither; never exactly one
C1_BothOrNeither ==
  Extracted =>
    \A i \in 1..Len(rows) :
      \/ Bare(rows[i])
      \/ /\ Designated(rows[i])
         /\ timeToMinutesOfDay(rows[i].amIn) # Null
         /\ timeToMinutesOfDay(rows[i].amOut) # Null
         /\ timeToMinutesOfDay(rows[i].amIn) <= timeToMinutesOfDay(rows[i].amOut)

\* the OCR path returned a designated row whose in-time is strictly earlier
C1_Witness ==
  /\ op = "parseDtrFromTesseractWords"
  /\ \E i \in 1..Len(rows) :
       /\ Designated(rows[i])
       /\ timeToMinutesOfDay(rows[i].amIn) < timeToMinutesOfDay(rows[i].amOut)

\* C2: a day with at least 2 distinct valid readings gets as inTime a reading
\* of minimal minutes and as outTime a reading of maximal minutes among them,
\* and a row of the result carries that pair
C2_EarliestLatest ==
  Extracted =>
    \A k \in 1..Len(days) :
      LET d == days[k]
          valid == ValidReadings(d)
      IN  Cardinality(valid) >= 2 =>
            /\ d.inTime \in valid /\ d.outTime \in valid
            /\ \A t \in valid :
                 /\ timeToMinutesOfDay(d.inTime) <= timeToMinutesOfDay(t)
                 /\ timeToMinutesOfDay(t) <= timeToMinutesOfDay(d.outTime)
            /\ \E i \in 1..Len(rows) :
                 rows[i].day = d.day /\ rows[i].amIn = d.inTime /\ rows[i].amOut = d.outTime

\* a day whose readings were found latest first: "10:52 PM" then "7:15 AM",
\* which is also their order as strings
C2_Witness ==
  /\ Extracted
  /\ \E k \in 1..Len(days) :
       /\ days[k].uniqueTimes = <<<<"1", "0", ":", "5", "2", " ", "P", "M">>, <<"7", ":", "1", "5", " ", "A", "M">>>>
       /\ days[k].inTime = <<"7", ":", "1", "5", " ", "A", "M">>
       /\ days[k].outTime = <<"1", "0", ":", "5", "2", " ", "P", "M">>

\* C3: a day with fewer than 2 distinct valid readings gets no in-time and no
\* out-time from either extractor, and the OCR path still returns a row for a
\* day with exactly one reading, with neither designated
C3_NoGuess ==
  Extracted =>
    \A k \in 1..Len(days) :
      LET d == days[k]
      IN  Cardinality(ValidReadings(d)) < 2 =>
            /\ d.inTime = Undefined /\ d.outTime = Undefined
            /\ \A i \in 1..Len(rows) : rows[i].day = d.day => Bare(rows[i])
            /\ (op = "parseDtrFromTesseractWords" /\ Cardinality(ValidReadings(d)) = 1)
                 => \E i \in 1..Len(rows) : rows[i].day = d.day

\* day cell "14" followed by the fragments "10:52" and "PM"
C3_Witness ==
  /\ op = "parseDtrFromTesseractWords"
  /\ Len(words) = 3
  /\ words[1].text = <<"1", "4">> /\ words[2].text = <<"1", "0", ":", "5", "2">> /\ words[3].text = <<"P", "M">>
  /\ Len(days) = 1 /\ days[1].day = 14 /\ days[1].timesFound = <<<<"1", "0", ":", "5", "2", " ", "P", "M">>>>
  /\ Len(rows) = 1 /\ rows[1].day = 14 /\ Bare(rows[1])

-----------------------------------------------------------------------------
(* SpecRepeat: calls of the extractors one after another, in any order      *)

\* the day cell of row A, a reading, then a word to the right of the bare time
RepeatWordLists ==
  {ws \in [1..3 -> WordBoxes] :
     /\ IsDayNumber(ws[1].text) /\ ws[1].y0 = 100
     /\ timeTokenRe(ws[2].text) \/ bareTimeRe(ws[2].text)
     /\ ws[3].x0 > 32 /\ ws[3].y0 < 130}

\* two day rows with a second reading each: two chunks scanned by one regex object
RepeatTexts ==
  {Join(q) : q \in {p \in DayRowPieces \X ReadingPieces \X DayRowPieces \X ReadingPieces :
                       p[1] # p[3]}}

InitRepeat ==
  /\ OtherIdle
  /\ op = "start"
  /\ rows = <<>>
  /\ TimeIdle /\ DiffIdle /\ ExtIdle /\ AggIdle

\* the first call is recorded; a later call with another input is noted
Recorded(kind, ws, t, rs) ==
  IF probe.kind = "none"
  THEN [kind |-> kind, words |-> ws, text |-> t, rows |-> rs, between |-> FALSE]
  ELSE IF probe.kind = kind /\ probe.words = ws /\ probe.text = t
  THEN probe
  ELSE [probe EXCEPT !.between = TRUE]

\* app.tsx 480, once per queued file
CallTesseractWords ==
  \E ws \in RepeatWordLists :
    \E r \in {parseDtrFromTesseractWords(ws, year, monthIndex0, AllowedWeekdays(schedule))} :
        /\ words' = ws /\ text' = <<>>
        /\ rows' = r.rows /\ days' = r.days /\ scanStarts' = {}
        /\ clusters' = RowClusters(ws)
        /\ probe' = Recorded("words", ws, <<>>, r.rows)
        /\ op' = "parseDtrFromTesseractWords"
        /\ UNCHANGED <<otherVars, timeVars, diffVars, aggVars>>

\* app.tsx 400, once per queued file
CallPdfText ==
  \E t \in RepeatTexts :
    \E r \in {parseDtrFromPdfText(t, year, monthIndex0, AllowedWeekdays(schedule))} :
        /\ text' = t /\ words' = <<>>
        /\ rows' = r.rows /\ days' = r.days /\ scanStarts' = r.scanStarts
        /\ clusters' = <<>>
        /\ probe' = Recorded("text", <<>>, t, r.rows)
        /\ op' = "parseDtrFromPdfText"
        /\ UNCHANGED <<otherVars, timeVars, diffVars, aggVars>>

NextRepeat == CallTesseractWords \/ CallPdfText

SpecRepeat == InitRepeat /\ [][NextRepeat]_vars

\* the call that produced the current state had the input of the first call
SameAsFirst ==
  \/ op = "parseDtrFromTesseractWords" /\ probe.kind = "words" /\ words = probe.words
  \/ op = "parseDtrFromPdfText" /\ probe.kind = "text" /\ text = probe.text

-----------------------------------------------------------------------------
(* Claims about inputs without data (SpecExtract) *)

\* no word left after trimming, no day cell in the day column, or no time token
NoUsableWords(ws) ==
  LET cw == cleanedWords(ws)
  IN  \/ cw = <<>>
      \/ \A i \in 1..Len(cw) : ~(IsDayNumber(cw[i].text) /\ InDayColumn(cw[i], MaxX1(cw)))
      \/ \A i \in 1..Len(cw) : ~timeTokenRe(cw[i].text) /\ ~bareTimeRe(cw[i].text)

\* no chunk begins with a day number, or the text holds no time token
NoUsableText(t) ==
  \/ ChunkDays(Lines(t)) = {}
  \/ \A p \in 0..(Len(CollapseSpaces(t)) - 1) : ~TimeReAt(CollapseSpaces(t), p).ok

\* C11: on an input without usable data each extractor returns a well-formed
\* result whose rows are empty: no debug day for the words, 31 debug days
\* without a reading for the text
C11_EmptyResult ==
  /\ (op = "parseDtrFromTesseractWords" /\ NoUsableWords(words))
       => rows = <<>> /\ days = <<>>
  /\ (op = "parseDtrFromPdfText" /\ NoUsableText(text))
       => /\ rows = <<>>
          /\ Len(days) = LastDay
          /\ \A k \in 1..Len(days) :
               /\ days[k].day = k /\ days[k].timesFound = <<>>
               /\ days[k].inTime = Undefined /\ days[k].outTime = Undefined

\* the OCR path returned no row for words with a day cell but no time token
C11_Witness ==
  /\ op = "parseDtrFromTesseractWords"
  /\ \E i \in 1..Len(words) :
       IsDayNumber(words[i].text) /\ InDayColumn(words[i], MaxX1(cleanedWords(words)))
  /\ \A i \in 1..Len(words) : ~timeTokenRe(words[i].text) /\ ~bareTimeRe(words[i].text)
  /\ rows = <<>>

-----------------------------------------------------------------------------
(* SpecRows: one call of an extractor on rows as OCR and pdf.js deliver them: *)
(* several day cells, day numbers outside the month, hour and minute digits *)
(* outside the clock, fragments that chain two rows together                *)

\* day cells of row A; the second starts further left and sits a little lower
DayCellsA ==
  {Word(<<"1", "4">>, 2, 8, 100, 110),
   Word(<<"3">>, 1, 5, 102, 112)}

\* fragments of row A (vertical midpoint 105 or 107)
ReadingsA ==
  {Word(<<"6", ":", "3", "0", "A", "M">>, 12, 19, 100, 110),
   Word(<<"1", "0", ":", "5", "2">>, 20, 32, 100, 110),
   Word(<<"P", "M">>, 40, 50, 102, 112),
   Word(<<"1", "3", ":", "7", "5", " ", "P", "M">>, 60, 90, 100, 110),
   Word(<<"0", ":", "3", "0", " ", "A", "M">>, 92, 99, 100, 110),
   Word(<<"1", "2", ":", "3", "0", " ", "A", "M">>, 100, 110, 100, 110)}

\* a header between the rows (midpoint 117): within tol of both
Between == {Word(<<"L", "a", "t", "e">>, 55, 58, 112, 122)}

\* day cells of row B (midpoint 129): day 14 again, and a number outside 1..31
DayCellsB ==
  {Word(<<"1", "4">>, 3, 9, 124, 134),
   Word(<<"3", "2">>, 2, 9, 124, 134)}

ReadingsB == {Word(<<"7", ":", "1", "5", " ", "A", "M">>, 60, 90, 124, 134)}

RowBoxes == DayCellsA \cup ReadingsA \cup Between \cup DayCellsB \cup ReadingsB

\* every list of up to MaxWords different boxes, and two rows of a day cell
\* and a reading
RowWordLists ==
  UNION {{ws \in [1..n -> RowBoxes] : \A i \in 1..n : \A j \in 1..n : i # j => ws[i] # ws[j]} :
           n \in 0..MaxWords}
    \cup (DayCellsA \X ReadingsA \X DayCellsB \X ReadingsB)

\* whole day rows of a text layer
RowTextPieces ==
  {<<"9", " ", "0", "7", ":", "5", "8", " ", "A", "M", " ", "0", "5", ":", "1", "0", " ", "P", "M">>,
   <<"1", "0", " ", "0", "8", ":", "0", "1", " ", "A", "M", " ", "0", "5", ":", "1", "0", " ", "P", "M">>,
   <<"0", " ", "0", "1", ":", "0", "0", " ", "A", "M", " ", "0", "2", ":", "0", "0", " ", "A", "M">>,
   <<"3", "2", " ", "0", "1", ":", "0", "0", " ", "A", "M", " ", "0", "2", ":", "0", "0", " ", "A", "M">>,
   <<"9", " ", "0", "6", ":", "0", "0", " ", "A", "M", " ", "1", "3", ":", "7", "5", " ", "P", "M">>,
   <<"7", " ", "0", ":", "3", "0", " ", "A", "M", " ", "1", "2", ":", "3", "0", " ", "A", "M">>}

\* up to MaxPieces - 1 day rows
RowTexts == {Join(ps) : ps \in UNION {[1..n -> RowTextPieces] : n \in 0..(MaxPieces - 1)}}

InitRows ==
  /\ OtherIdle
  /\ \/ op = "words" /\ words \in RowWordLists /\ text = <<>>
     \/ op = "text" /\ text \in RowTexts /\ words = <<>>
  /\ rows = <<>> /\ days = <<>> /\ scanStarts = {} /\ clusters = <<>> /\ probe = NoProbe
  /\ TimeIdle /\ DiffIdle /\ AggIdle

NextRows == ParseDtrFromTesseractWords \/ ParseDtrFromPdfText

SpecRows == InitRows /\ [][NextRows]_vars

-----------------------------------------------------------------------------
(* Claims about the rows (SpecRows) *)

\* a TimeOfDay: hour 1..12, minute 0..59
ValidTimeOfDay(t) ==
  /\ ClockMatch(t)
  /\ Number(TimeShape(t).hh) \in 1..12
  /\ Number(TimeShape(t).mm) \in 0..59

\* C12: every in-time and out-time of a returned row is a valid TimeOfDay
\* (hour 1..12, minute 0..59) whose minutes of day lie in 0..1439
C12_ValidTimes ==
  Extracted =>
    \A i \in 1..Len(rows) :
      \A t \in {rows[i].amIn, rows[i].amOut} \ {Undefined} :
        ValidTimeOfDay(t) /\ timeToMinutesOfDay(t) \in 0..1439

\* C13: the returned rows are in strictly increasing order of day, every day
\* in 1..31: no day twice, no row for a day cell of 0 or above 31
C13_DaysIncreasing ==
  Extracted =>
    /\ \A i \in 1..Len(rows) : rows[i].day \in 1..31
    /\ \A i \in 1..Len(rows) : \A j \in 1..Len(rows) : i < j => rows[i].day < rows[j].day

\* two row clusters with the day cell 14 gave one row with the readings of both
C13_Witness ==
  /\ op = "parseDtrFromTesseractWords"
  /\ Len(clusters) = 2
  /\ \A c \in 1..2 : \E i \in 1..Len(clusters[c]) : clusters[c][i].text = <<"1", "4">>
  /\ Len(rows) = 1 /\ rows[1].day = 14
  /\ Len(days[1].timesFound) = 2

\* the text as line 257 leaves it, and the 0-based positions at which a chunk
\* of it begins: its start and every 'day number + time' boundary
Stream == CollapseSpaces(text)

ChunkStarts == {0} \cup SplitPoints(Stream)

\* the part of the stream from the chunk start p up to the next boundary
Segment(p) ==
  LET later == {q \in SplitPoints(Stream) : q > p}
  IN  SubSeq(Stream, p + 1,
             IF later = {} THEN Len(Stream) ELSE CHOOSE q \in later : \A z \in later : q <= z)

\* the chunk starts at which the day number d begins the chunk
OwnStarts(d) ==
  {p \in ChunkStarts : StartsWith(Trim(Segment(p)), String(d) \o <<" ">>)}

-----------------------------------------------------------------------------
(* SpecSchedule: the schedule form, from the empty schedule: the fields are  *)
(* edited and the buttons Add schedule, Remove and Clear are pressed in any  *)
(* order                                                                     *)

\* types: Weekday
Weekdays == 0..6

\* the values of an <input type="time">: a time, or "" when it is cleared
StartValues == {"07:00", "08:00", ""}
EndValues == {"17:00", ""}

InitSchedule ==
  /\ OtherIdle
  /\ op = "ScheduleBuilder"
  /\ schedule = <<>>
  /\ weekday = 1 /\ start = "07:00" /\ end = "17:00"
  /\ diff = 0 /\ year = DefaultYear /\ monthIndex0 = DefaultMonthIndex0 /\ result = NoResult
  /\ TimeIdle /\ ExtIdle /\ rows = <<>>

scheduleFrame == <<timeVars, diff, extVars, rows, year, monthIndex0, result>>

SetWeekday ==
  /\ \E w \in Weekdays \ {weekday} : weekday' = w
  /\ op' = "setWeekday"
  /\ UNCHANGED <<otherVars, schedule, start, end, scheduleFrame>>

SetStart ==
  /\ \E v \in StartValues \ {start} : start' = v
  /\ op' = "setStart"
  /\ UNCHANGED <<otherVars, schedule, weekday, end, scheduleFrame>>

SetEnd ==
  /\ \E v \in EndValues \ {end} : end' = v
  /\ op' = "setEnd"
  /\ UNCHANGED <<otherVars, schedule, weekday, start, scheduleFrame>>

AddSchedule ==
  /\ schedule' = addSchedule(schedule, weekday, start, end)
  /\ op' = "addSchedule"
  /\ UNCHANGED <<otherVars, weekday, start, end, scheduleFrame>>

\* the Remove button of a listed entry
RemoveDay ==
  /\ \E i \in 1..Len(schedule) : schedule' = removeDay(schedule, schedule[i].weekday)
  /\ op' = "removeDay"
  /\ UNCHANGED <<otherVars, weekday, start, end, scheduleFrame>>

ClearAll ==
  /\ schedule' = clearAll(schedule)
  /\ op' = "clearAll"
  /\ UNCHANGED <<otherVars, weekday, start, end, scheduleFrame>>

NextSchedule ==
  \/ SetWeekday \/ SetStart \/ SetEnd
  \/ AddSchedule \/ RemoveDay \/ ClearAll

SpecSchedule == InitSchedule /\ [][NextSchedule]_vars

\* C15: from the empty schedule, whatever is added, removed and cleared, the
\* schedule holds at most one entry per weekday, in ascending weekday order,
\* and after an add with both fields set the entry of the chosen weekday is
\* the one just added
C15_OnePerWeekday ==
  /\ \A i \in 1..Len(schedule) : \A j \in 1..Len(schedule) :
       i < j => schedule[i].weekday < schedule[j].weekday
  /\ (op = "addSchedule" /\ start # "" /\ end # "") =>
       \A i \in 1..Len(schedule) :
         schedule[i].weekday = weekday => schedule[i].start = start /\ schedule[i].end = end

\* all seven weekdays are scheduled, and the latest add gave Sunday, the
\* first entry, a start other than the default
C15_Witness ==
  /\ op = "addSchedule"
  /\ Len(schedule) = 7
  /\ weekday = 0 /\ schedule[1].start = "08:00"
  /\ schedule[2].start = "07:00"

-----------------------------------------------------------------------------
(* SpecDay: the OCR row of one day, holding the day cell and two readings   *)
(* in either left-to-right order and in every surface form, is parsed and   *)
(* its rows are aggregated                                                  *)

\* a reading as printed: hour and minute, and the meridiem
Reading(hhmm, m) == [hhmm |-> hhmm, ap |-> m]

\* pairs of readings with distinct minutes of day and the minutes between them
DayPairs ==
  {[in |-> Reading(<<"6", ":", "1", "5">>, AM), out |-> Reading(<<"5", ":", "0", "2">>, PM),
    minutes |-> 647],
   [in |-> Reading(<<"1", "1", ":", "4", "0">>, AM), out |-> Reading(<<"1", "2", ":", "0", "5">>, PM),
    minutes |-> 25]}

\* the canonical form of a reading
Canon(r) == r.hhmm \o <<" ">> \o r.ap

\* the words of a reading whose box starts at x: compact '6:15AM', spaced
\* '6:15 AM', and split '6:15' + 'AM'
ReadingForms(r, x) ==
  {<<Word(r.hhmm \o r.ap, x, x + 14, 100, 110)>>,
   <<Word(Canon(r), x, x + 16, 100, 110)>>,
   <<Word(r.hhmm, x, x + 8, 100, 110), Word(r.ap, x + 10, x + 14, 100, 110)>>}

Reverse(s) == [i \in 1..Len(s) |-> s[Len(s) + 1 - i]]

\* the row of day 3 with the two readings of pair: either reading on the
\* left, each in every form, the words delivered left to right or right to left
DayWordLists(pair) ==
  LET Row(left, right) ==
        {<<Word(<<"3">>, 2, 6, 100, 110)>> \o f \o g :
           f \in ReadingForms(left, 20), g \in ReadingForms(right, 60)}
      rowsOf == Row(pair.in, pair.out) \cup Row(pair.out, pair.in)
  IN  rowsOf \cup {Reverse(ws) : ws \in rowsOf}

InitDay ==
  /\ OtherIdle
  /\ op = "words"
  /\ \E pair \in DayPairs : words \in DayWordLists(pair)
  /\ schedule \in Schedules
  /\ \E ym \in AggMonths : year = ym[1] /\ monthIndex0 = ym[2]
  /\ text = <<>> /\ rows = <<>> /\ days = <<>> /\ scanStarts = {} /\ clusters = <<>>
  /\ probe = NoProbe /\ weekday = 1 /\ result = NoResult
  /\ TimeIdle /\ DiffIdle

\* app.tsx 366-369: the total of the rows an extractor returned
ComputeTotalOfRows ==
  /\ op = "parseDtrFromTesseractWords"
  /\ result' = IF rows = <<>> THEN NoResult
               ELSE computeTotalMinutes(rows, schedule, year, monthIndex0)
  /\ op' = "computeTotalMinutes"
  /\ UNCHANGED <<otherVars, timeVars, diffVars, extVars, rows, schedule, weekday, year, monthIndex0>>

NextDay == ParseDtrFromTesseractWords \/ ComputeTotalOfRows

SpecDay == InitDay /\ [][NextDay]_vars

\* C16: the row of a day with two readings of distinct minutes of day gives
\* the same in-time, out-time and rawMinutes whichever reading stands on the
\* left and whether each is written compact, spaced or split; 6:15 AM and
\* 5:02 PM give 647 minutes, counted when the day is in the schedule
C16_FormIndependent ==
  \A pair \in DayPairs :
    words \in DayWordLists(pair) =>
      /\ op \in {"parseDtrFromTesseractWords", "computeTotalMinutes"} =>
           rows = <<DtrRow(3, Canon(pair.in), Canon(pair.out))>>
      /\ op = "computeTotalMinutes" =>
           /\ Len(result.perDay) = 1
           /\ result.perDay[1].rawMinutes = pair.minutes
           /\ result.perDay[1].inSchedule =
                (weekdayOfDate(year, monthIndex0, 3) \in AllowedWeekdays(schedule))
           /\ result.totalMinutes = IF result.perDay[1].inSchedule THEN pair.minutes ELSE 0

\* Tuesday 3 June 2025 under Mon..Fri: '5:02' + 'PM' on the left of '6:15AM',
\* the words delivered right to left, counts 647 minutes
C16_Witness ==
  /\ op = "computeTotalMinutes"
  /\ Len(words) = 4
  /\ words[1].text = <<"6", ":", "1", "5", "A", "M">> /\ words[1].x0 = 60
  /\ words[3].text = <<"5", ":", "0", "2">> /\ words[3].x0 = 20
  /\ year = 2025 /\ monthIndex0 = 5 /\ Len(schedule) = 5
  /\ result.perDay[1].inSchedule
  /\ result.totalMinutes = 647

RECURSIVE Flatten(_)
\* the fragments of the clusters, in cluster order
Flatten(cls) == IF cls = <<>> THEN <<>> ELSE Flatten(Front(cls)) \o Last(cls)

\* the index of the cluster that holds the k-th fragment of Flatten(cls)
ClusterOf(cls, k) ==
  CHOOSE c \in 1..Len(cls) :
    /\ Len(Flatten(Take(cls, c - 1))) < k
    /\ k <= Len(Flatten(Take(cls, c)))

\* how often x occurs in s
Count(s, x) == Cardinality({i \in 1..Len(s) : s[i] = x})

\* C17: the row clusters partition the non-empty fragments; read cluster by
\* cluster the fragments are in ascending order of vertical midpoint, and two
\* neighbours in that order share a cluster exactly when their midpoints
\* differ by at most 12
C17_ChainClusters ==
  op = "parseDtrFromTesseractWords" =>
    LET flat    == Flatten(clusters)
        cleaned == cleanedWords(words)
    IN  /\ \A c \in 1..Len(clusters) : clusters[c] # <<>>
        /\ Len(flat) = Len(cleaned)
        /\ \A i \in 1..Len(cleaned) : Count(flat, cleaned[i]) = Count(cleaned, cleaned[i])
        /\ \A k \in 1..(Len(flat) - 1) :
             /\ YMid2(flat[k]) <= YMid2(flat[k + 1])
             /\ (ClusterOf(clusters, k) = ClusterOf(clusters, k + 1))
                  = (YMid2(flat[k + 1]) - YMid2(flat[k]) <= 2 * tol)

\* a chain: three fragments in one cluster whose first and last midpoints are
\* more than 12 apart, the last link being exactly 12
C17_Witness ==
  /\ op = "parseDtrFromTesseractWords"
  /\ Len(clusters) = 1 /\ Len(clusters[1]) = 3
  /\ YMid2(clusters[1][3]) - YMid2(clusters[1][1]) > 2 * tol
  /\ YMid2(clusters[1][3]) - YMid2(clusters[1][2]) = 2 * tol

\* the day cell of a row by its left-to-right order: the number in the first
\* fragment, by x0, that lies in the day column and is 1-2 digits; 0 if none
LeftmostDay(row, maxX) ==
  LET Pick(r, i) == IF i = 0 THEN 0 ELSE Number(r[i].text)
      First(r) == Pick(r, DayWordIndex(r, maxX))
  IN  First(RowSorted(row))

\* C18: the day of a row cluster is that of its leftmost day cell: the days
\* with readings are exactly the leftmost day cells, within 1..31, of the
\* clusters that hold a reading
C18_LeftmostDayCell ==
  op = "parseDtrFromTesseractWords" =>
    LET maxX == MaxX1(cleanedWords(words))
        contributing ==
          {c \in 1..Len(clusters) :
             /\ LeftmostDay(clusters[c], maxX) \in 1..31
             /\ collectTimesFromRow(clusters[c]) # <<>>}
    IN  {days[k].day : k \in 1..Len(days)}
          = {LeftmostDay(clusters[c], maxX) : c \in contributing}

\* the reading that begins at the i-th fragment of the row rs, read left to
\* right: a whole reading, or a bare time with the AM / PM fragment after
\* it; nothing for a bare time alone, a header label or a day number
ReadingAt(rs, i) ==
  LET t    == rs[i].text
      next == IF i < Len(rs) THEN rs[i + 1].text ELSE <<>>
      Canonical(sh, m) == <<normalizeTime(sh.hh, sh.mm, m)>>
  IN  IF IsHeaderLabel(t) \/ IsDayNumber(t) THEN <<>>
      ELSE IF timeCompactRe(t) \/ timeTokenRe(t) THEN Canonical(TimeShape(t), MeridiemGroup(t))
      ELSE IF bareTimeRe(t) /\ toUpperCase(next) \in {AM, PM} THEN Canonical(TimeShape(t), next)
      ELSE <<>>

RECURSIVE RowReadings(_, _)
\* the readings that begin at the first n fragments of rs
RowReadings(rs, n) ==
  IF n = 0 THEN <<>> ELSE RowReadings(rs, n - 1) \o ReadingAt(rs, n)

\* the day number found in a cluster, 0 if none
ClusterDay(row, maxX) ==
  LET Pick(i) == IF i = 0 THEN 0 ELSE Number(row[i].text)
  IN  Pick(DayWordIndex(row, maxX))

RECURSIVE DayReadings(_, _, _)
\* the readings of the clusters of the given day, cluster after cluster
DayReadings(cls, day, maxX) ==
  IF cls = <<>> THEN <<>>
  ELSE DayReadings(Front(cls), day, maxX)
         \o (IF ClusterDay(Last(cls), maxX) = day
             THEN RowReadings(RowSorted(Last(cls)), Len(Last(cls)))
             ELSE <<>>)

\* C19: the readings of a day are one per fragment that begins a reading in
\* its rows: one for a whole reading, one for a bare time directly followed
\* by an AM / PM fragment, which yields nothing of its own, and none for a
\* bare time alone, a header label or the day number
C19_OneReadingPerFragment ==
  op = "parseDtrFromTesseractWords" =>
    LET maxX == MaxX1(cleanedWords(words))
    IN  /\ \A k \in 1..Len(days) :
             days[k].timesFound = DayReadings(clusters, days[k].day, maxX)
        /\ \A c \in 1..Len(clusters) :
             (/\ ClusterDay(clusters[c], maxX) \in 1..LastDay
              /\ RowReadings(RowSorted(clusters[c]), Len(clusters[c])) # <<>>)
               => \E k \in 1..Len(days) : days[k].day = ClusterDay(clusters[c], maxX)

\* the row '14', '10:52', 'PM' has the single reading 10:52 PM
C19_Witness ==
  /\ op = "parseDtrFromTesseractWords"
  /\ Len(clusters) = 1 /\ Len(clusters[1]) = 3
  /\ \E i \in 1..3 : words[i].text = <<"1", "0", ":", "5", "2">>
  /\ \E i \in 1..3 : words[i].text = PM
  /\ Len(days) = 1 /\ days[1].day = 14
  /\ days[1].timesFound = <<<<"1", "0", ":", "5", "2", " ", "P", "M">>>>

\* the first-seen reading of the unique readings u among those whose minutes
\* of day are m
FirstSeenWith(u, m) ==
  u[CHOOSE i \in 1..Len(u) :
      /\ timeToMinutesOfDay(u[i]) = m
      /\ \A j \in 1..(i - 1) : timeToMinutesOfDay(u[j]) # m]

\* C20: when readings of a day tie in minutes of day for the earliest or for
\* the latest position, the in-time, respectively the out-time, is the
\* first-seen of the tied readings
C20_FirstSeenOnTie ==
  Extracted =>
    \A k \in 1..Len(days) :
      LET u     == days[k].uniqueTimes
          valid == {timeToMinutesOfDay(u[i]) : i \in 1..Len(u)} \ {Null}
          least == CHOOSE m \in valid : \A n \in valid : m <= n
          most  == CHOOSE m \in valid : \A n \in valid : n <= m
      IN  days[k].inTime # Undefined =>
            /\ days[k].inTime = FirstSeenWith(u, least)
            /\ days[k].outTime = FirstSeenWith(u, most)

\* the chunk that starts at p begins, once trimmed, with the number d and a
\* space: '10 ...' begins with 10 and not with 1
BeginsWithDay(p, d) ==
  LET Begins(c, n) == n >= 1 /\ Take(c, n) = String(d) /\ Len(c) > n /\ c[n + 1] = " "
      OfChunk(c) == Begins(c, DigitPrefixLen(c))
  IN  OfChunk(Trim(Segment(p)))

\* C21: in the text path a day draws its readings from one chunk at most,
\* the first chunk of the stream that begins with its day number and a
\* space; later chunks of the same day number add nothing, and a chunk that
\* begins with a longer number is not used
C21_FirstChunkOnly ==
  op = "parseDtrFromPdfText" =>
    \A d \in 1..LastDay :
      LET starts == {p \in ChunkStarts : BeginsWithDay(p, d)}
      IN  days[d].timesFound =
            IF starts = {} THEN <<>>
            ELSE ExecAll(Segment(CHOOSE p \in starts : \A q \in starts : p <= q), 0)

\* '9 07:58 AM 05:10 PM 9 06:00 AM 13:75 PM': day 9 has the readings of the
\* first of its two chunks only
C21_Witness ==
  /\ op = "parseDtrFromPdfText"
  /\ Cardinality({p \in ChunkStarts : BeginsWithDay(p, 9)}) = 2
  /\ days[9].timesFound = <<<<"7", ":", "5", "8", " ", "A", "M">>, <<"5", ":", "1", "0", " ", "P", "M">>>>

-----------------------------------------------------------------------------
(* SpecResolve: one ordered list of canonical readings of a day is          *)
(* deduplicated and resolved as the OCR path does it and as the text path   *)
(* does it, in either order                                                 *)

MaxTimes == 3

\* canonical readings as normalizeTime delivers them, among them two of the
\* same minutes of day and one with minutes above 59
CanonicalReadings ==
  {<<"7", ":", "5", "8", " ", "A", "M">>,
   <<"5", ":", "1", "0", " ", "P", "M">>,
   <<"1", "2", ":", "0", "5", " ", "P", "M">>,
   <<"0", ":", "3", "0", " ", "A", "M">>,
   <<"1", "2", ":", "3", "0", " ", "A", "M">>,
   <<"1", "3", ":", "7", "5", " ", "P", "M">>}

InitResolve ==
  /\ op = "timesFound"
  /\ dayTimes \in UNION {[1..n -> CanonicalReadings] : n \in 0..MaxTimes}
  /\ resolved = <<>>
  /\ rows = <<>>
  /\ TimeIdle /\ DiffIdle /\ ExtIdle /\ AggIdle /\ QueueIdle

Resolved(path, uniqueTimes, io) ==
  [path |-> path, uniqueTimes |-> uniqueTimes, inTime |-> io.inTime, outTime |-> io.outTime]

\* parseDtr.ts 185-198
ResolveWords ==
  /\ \A i \in 1..Len(resolved) : resolved[i].path # "parseDtrFromTesseractWords"
  /\ \E u \in {Unique(dayTimes)} :
       resolved' = Append(resolved, Resolved("parseDtrFromTesseractWords", u, ResolveInOut(u)))
  /\ op' = "parseDtrFromTesseractWords"
  /\ UNCHANGED <<dayTimes, timeVars, diffVars, extVars, rows, aggVars, queueVars>>

\* parseDtr.ts 276-295
ResolveText ==
  /\ \A i \in 1..Len(resolved) : resolved[i].path # "parseDtrFromPdfText"
  /\ \E u \in {Unique(dayTimes)} :
       resolved' = Append(resolved, Resolved("parseDtrFromPdfText", u, ResolveInOutText(u)))
  /\ op' = "parseDtrFromPdfText"
  /\ UNCHANGED <<dayTimes, timeVars, diffVars, extVars, rows, aggVars, queueVars>>

NextResolve == ResolveWords \/ ResolveText

SpecResolve == InitResolve /\ [][NextResolve]_vars

\* C22: on the same ordered list of canonical readings of a day the two
\* extractors keep the same distinct readings and designate the same in-time
\* and out-time, or both none
C22_SameResolution ==
  \A i \in 1..Len(resolved) : \A j \in 1..Len(resolved) :
    /\ resolved[i].uniqueTimes = resolved[j].uniqueTimes
    /\ resolved[i].inTime = resolved[j].inTime
    /\ resolved[i].outTime = resolved[j].outTime

\* 5:10 PM, 7:58 AM, 5:10 PM: both paths resolved it, to in 7:58 AM and out
\* 5:10 PM
C22_Witness ==
  /\ Len(resolved) = 2
  /\ resolved[1].path # resolved[2].path
  /\ dayTimes = <<<<"5", ":", "1", "0", " ", "P", "M">>, <<"7", ":", "5", "8", " ", "A", "M">>,
                  <<"5", ":", "1", "0", " ", "P", "M">>>>
  /\ \A i \in 1..2 :
       /\ resolved[i].inTime = <<"7", ":", "5", "8", " ", "A", "M">>
       /\ resolved[i].outTime = <<"5", ":", "1", "0", " ", "P", "M">>

\* s without its k-th element
RemoveAt(s, k) == SubSeq(s, 1, k - 1) \o SubSeq(s, k + 1, Len(s))

\* the resolution of the extractor that produced the current state
ResolveOf(t) ==
  IF op = "parseDtrFromPdfText" THEN ResolveInOutText(Unique(t)) ELSE ResolveInOut(Unique(t))

\* C23: a reading detected again for a day changes nothing: the in-time and
\* out-time of the day are those of its readings without the repeated
\* detection, and a day whose detections all are one reading has neither
C23_DuplicatesIgnored ==
  Extracted =>
    \A d \in 1..Len(days) :
      LET t == days[d].timesFound
      IN  /\ \A k \in 2..Len(t) :
               (\E j \in 1..(k - 1) : t[j] = t[k]) =>
                 /\ days[d].inTime = ResolveOf(RemoveAt(t, k)).inTime
                 /\ days[d].outTime = ResolveOf(RemoveAt(t, k)).outTime
          /\ Cardinality({t[i] : i \in 1..Len(t)}) = 1 =>
               days[d].inTime = Undefined /\ days[d].outTime = Undefined

\* day 14 in two row clusters, each with the reading 7:15 AM: the day has
\* one distinct reading and neither an in-time nor an out-time
C23_Witness ==
  /\ op = "parseDtrFromTesseractWords"
  /\ Len(clusters) = 2
  /\ Len(days) = 1 /\ days[1].day = 14
  /\ days[1].timesFound = <<<<"7", ":", "1", "5", " ", "A", "M">>, <<"7", ":", "1", "5", " ", "A", "M">>>>
  /\ days[1].inTime = Undefined /\ days[1].outTime = Undefined
  /\ Len(rows) = 1 /\ Bare(rows[1])

\* C24: on every in-time and out-time of a returned row the extractors'
\* timeToMinutesOfDay and the aggregator's parseTimeToMinutes give the same
\* minutes, in is not after out, and the pair contributes out minus in
C24_ConversionsAgree ==
  Extracted =>
    \A i \in 1..Len(rows) :
      Designated(rows[i]) =>
        /\ parseTimeToMinutes(rows[i].amIn) = timeToMinutesOfDay(rows[i].amIn)
        /\ parseTimeToMinutes(rows[i].amOut) = timeToMinutesOfDay(rows[i].amOut)
        /\ timeToMinutesOfDay(rows[i].amIn) <= timeToMinutesOfDay(rows[i].amOut)
        /\ diffMinutes(rows[i].amIn, rows[i].amOut)
             = timeToMinutesOfDay(rows[i].amOut) - timeToMinutesOfDay(rows[i].amIn)

-----------------------------------------------------------------------------
(* SpecQueue: the scan queue of app.tsx under file-detected events, schedule
   changes, the effects, reprocessPending and the steps of processQueueItem *)

\* the files the watched folder delivers
FilePaths == {"a.pdf", "b.pdf"}

\* app.tsx 339: createdAt of the item a file is queued with
CreatedAt(f) == IF f = "a.pdf" THEN 1 ELSE 2

\* the weekdays the user puts on the schedule
QueueWeekdays == {1, 3}

\* the rows a scan that finds rows returns: Monday 1 December 2025
ScannedRows ==
  <<[day |-> 1,
     amIn |-> <<"6", ":", "1", "5", " ", "A", "M">>,
     amOut |-> <<"5", ":", "0", "2", " ", "P", "M">>,
     pmIn |-> Undefined, pmOut |-> Undefined]>>

\* app.tsx 160-166: hasSchedule() and hasScheduleNow(); the effect of lines
\* 63-68 makes scheduleRef.current the schedule before any other effect runs
hasSchedule == schedule # <<>>

\* app.tsx 335-343: the item onFileDetected queues
NewItem(f) ==
  [filePath |-> f, createdAt |-> CreatedAt(f),
   status |-> IF hasSchedule THEN "READY" ELSE "PENDING_SCHEDULE",
   note |-> IF hasSchedule THEN NoNote ELSE "No schedule set"]

\* the application after mount: an empty queue, the schedule local storage
\* held, every effect yet to run
InitQueue ==
  /\ ResolveIdle
  /\ op = "mount"
  /\ queue = <<>> /\ processingRef = FALSE /\ procs = {}
  /\ effects = {"unblock", "autoProcess"}
  /\ reprocess = NoReprocess
  /\ schedule \in {<<>>, ScheduleOf(<<1>>)}
  /\ weekday = 1 /\ year = DefaultYear /\ monthIndex0 = DefaultMonthIndex0
  /\ result = NoResult
  /\ rows = <<>>
  /\ TimeIdle /\ DiffIdle /\ ExtIdle

queueFrame == <<resolveVars, timeVars, diffVars, extVars, rows, weekday, year, monthIndex0, result>>

StartProcessNoGuard(f, by, base) ==
  IF ~hasSchedule
  THEN /\ queue' = setStatus(queue, f, [status |-> "PENDING_SCHEDULE", note |-> "No schedule set"])
       /\ effects' = base \cup {"autoProcess"}
       /\ UNCHANGED <<processingRef, procs>>
  ELSE /\ processingRef' = TRUE
       /\ queue' = setStatus(queue, f, [status |-> "PROCESSING", note |-> NoNote])
       /\ procs' = procs \cup {[filePath |-> f, by |-> by, pc |-> "filePathToFile"]}
       /\ effects' = base \cup {"autoProcess"}

StartProcessNoSchedule(f, by, base) ==
  IF processingRef
  THEN /\ effects' = base
       /\ UNCHANGED <<queue, processingRef, procs>>
  ELSE /\ processingRef' = TRUE
       /\ queue' = setStatus(queue, f, [status |-> "PROCESSING", note |-> NoNote])
       /\ procs' = procs \cup {[filePath |-> f, by |-> by, pc |-> "filePathToFile"]}
       /\ effects' = base \cup {"autoProcess"}

\* app.tsx 206-223: processQueueItem up to its first await, called by the
\* effect or by reprocessPending; base is the effects left to run, to which
\* every update of the queue adds the auto-process effect
StartProcess(f, by, base) ==
  IF ~hasSchedule
  THEN /\ queue' = setStatus(queue, f, [status |-> "PENDING_SCHEDULE", note |-> "No schedule set"])
       /\ effects' = base \cup {"autoProcess"}
       /\ UNCHANGED <<processingRef, procs>>
  ELSE IF processingRef
  THEN /\ effects' = base
       /\ UNCHANGED <<queue, processingRef, procs>>
  ELSE /\ processingRef' = TRUE
       /\ queue' = setStatus(queue, f, [status |-> "PROCESSING", note |-> NoNote])
       /\ procs' = procs \cup {[filePath |-> f, by |-> by, pc |-> "filePathToFile"]}
       /\ effects' = base \cup {"autoProcess"}

\* app.tsx 335-345: onFileDetected
FileDetected ==
  /\ \E f \in FilePaths : queue' = upsertQueue(queue, NewItem(f))
  /\ effects' = effects \cup {"autoProcess"}
  /\ op' = "onFileDetected"
  /\ UNCHANGED <<processingRef, procs, reprocess, schedule, queueFrame>>

\* ScheduleBuilder.tsx: the user adds a day, removes one or clears the
\* schedule; app.tsx 63-68, 148, 355: every effect on the schedule is to run
ChangeSchedule ==
  /\ \E w \in QueueWeekdays :
       schedule' \in {addSchedule(schedule, w, "07:00", "17:00"), removeDay(schedule, w),
                      clearAll(schedule)}
  /\ effects' = {"unblock", "autoProcess"}
  /\ op' = "setSchedule"
  /\ UNCHANGED <<queue, processingRef, procs, reprocess, queueFrame>>

\* app.tsx 147-158: the effect on the schedule
UnblockEffect ==
  /\ "unblock" \in effects
  /\ IF hasSchedule
     THEN /\ queue' = unblock(queue)
          /\ effects' = (effects \ {"unblock"}) \cup {"autoProcess"}
     ELSE /\ effects' = effects \ {"unblock"}
          /\ UNCHANGED queue
  /\ op' = "unblock"
  /\ UNCHANGED <<processingRef, procs, reprocess, schedule, queueFrame>>

\* app.tsx 354-363: the auto-process effect, after the effects declared
\* before it
AutoProcessEffect ==
  /\ "autoProcess" \in effects
  /\ "unblock" \notin effects
  /\ IF hasSchedule /\ ~processingRef /\ FirstReady(queue) # 0
     THEN StartProcess(queue[FirstReady(queue)].filePath, "effect", effects \ {"autoProcess"})
     ELSE /\ effects' = effects \ {"autoProcess"}
          /\ UNCHANGED <<queue, processingRef, procs>>
  /\ op' = "autoProcess"
  /\ UNCHANGED <<reprocess, schedule, queueFrame>>

\* app.tsx 257-263 and 276-278: the catch and the finally of processQueueItem,
\* and the loop of reprocessPending that awaited the call
Release(p) ==
  /\ processingRef' = FALSE
  /\ procs' = procs \ {p}
  /\ reprocess' = IF p.by = "reprocess" THEN [reprocess EXCEPT !.waiting = FALSE]
                  ELSE reprocess

Fail(p, note) ==
  /\ queue' = setStatus(queue, p.filePath, [status |-> "FAILED", note |-> note])
  /\ effects' = effects \cup {"autoProcess"}
  /\ Release(p)

\* app.tsx 224: filePathToFile returns the file, or throws
FilePathToFile ==
  /\ \E p \in procs :
       /\ p.pc = "filePathToFile"
       /\ \/ /\ procs' = (procs \ {p}) \cup {[p EXCEPT !.pc = "scanAndCompute"]}
             /\ UNCHANGED <<queue, processingRef, effects, reprocess>>
          \/ Fail(p, "Failed")
  /\ op' = "filePathToFile"
  /\ UNCHANGED <<schedule, queueFrame>>

\* app.tsx 228-256, 370-374: scanAndCompute returns rows, none, or throws; it
\* returns null at once when the schedule is empty
ScanAndCompute ==
  /\ \E p \in procs :
       /\ p.pc = "scanAndCompute"
       /\ \/ /\ queue' = setStatus(queue, p.filePath,
                    [status |-> "DONE",
                     totalMinutes |-> computeTotalMinutes(ScannedRows, schedule, year, monthIndex0).totalMinutes])
             /\ effects' = effects \cup {"autoProcess"}
             /\ procs' = (procs \ {p}) \cup {[p EXCEPT !.pc = "deleteFile"]}
             /\ UNCHANGED <<processingRef, reprocess>>
          \/ Fail(p, "No rows detected")
          \/ Fail(p, "Failed")
  /\ op' = "scanAndCompute"
  /\ UNCHANGED <<schedule, queueFrame>>

\* app.tsx 243-249: the processed file is deleted and its item removed, or
\* the failure is logged
DeleteFile ==
  /\ \E p \in procs :
       /\ p.pc = "deleteFile"
       /\ \/ /\ queue' = removeFromQueue(queue, p.filePath)
             /\ effects' = effects \cup {"autoProcess"}
          \/ UNCHANGED <<queue, effects>>
       /\ Release(p)
  /\ op' = "deleteFile"
  /\ UNCHANGED <<schedule, queueFrame>>

\* app.tsx 266-275, 574-581: a click on the enabled button starts the loop
ReprocessPending ==
  /\ hasSchedule /\ queue # <<>>
  /\ reprocess = NoReprocess
  /\ reprocess' = [pend |-> PendingPaths(queue), waiting |-> FALSE]
  /\ op' = "reprocessPending"
  /\ UNCHANGED <<queue, processingRef, procs, effects, schedule, queueFrame>>

\* app.tsx 276-278: the loop calls processQueueItem for its next item and
\* awaits it
ReprocessNext ==
  /\ reprocess.pend # <<>> /\ ~reprocess.waiting
  /\ StartProcess(Head(reprocess.pend), "reprocess", effects)
  /\ reprocess' = [pend |-> Tail(reprocess.pend), waiting |-> hasSchedule /\ ~processingRef]
  /\ op' = "processQueueItem"
  /\ UNCHANGED <<schedule, queueFrame>>

NextQueue ==
  \/ FileDetected
  \/ ChangeSchedule
  \/ UnblockEffect
  \/ AutoProcessEffect
  \/ FilePathToFile
  \/ ScanAndCompute
  \/ DeleteFile
  \/ ReprocessPending
  \/ ReprocessNext

SpecQueue == InitQueue /\ [][NextQueue]_vars

-----------------------------------------------------------------------------
(* The scan queue *)

\* the indices of the queue items in a status
WithStatus(st) == {i \in 1..Len(queue) : queue[i].status = st}

StatusIn(q, f) ==
  LET hits == {i \in 1..Len(q) : q[i].filePath = f}
  IN  IF hits = {} THEN "" ELSE q[CHOOSE i \in hits : TRUE].status

\* the items of a queue, as a set
ItemsOf(q) == {q[i] : i \in 1..Len(q)}

\* C26: no step makes an item PROCESSING while the schedule is empty; a call
\* of processQueueItem with an empty schedule leaves its item PENDING_SCHEDULE
\* with the note 'No schedule set', acquires nothing and starts no scan; a
\* detected file is queued PENDING_SCHEDULE with that note when the schedule
\* is empty and READY without a note otherwise
C26_NoProcessingWithoutSchedule ==
  [][/\ \A f \in FilePaths :
          StatusIn(queue', f) = "PROCESSING" /\ StatusIn(queue, f) # "PROCESSING" => hasSchedule
     /\ op' = "processQueueItem" /\ ~hasSchedule =>
          /\ processingRef' = processingRef /\ procs' = procs
          /\ \A x \in ItemsOf(queue') :
               x.filePath = Head(reprocess.pend) =>
                 x.status = "PENDING_SCHEDULE" /\ x.note = "No schedule set"
     /\ op' = "onFileDetected" =>
          \E x \in ItemsOf(queue') :
            /\ x.status = (IF hasSchedule THEN "READY" ELSE "PENDING_SCHEDULE")
            /\ x.note = (IF hasSchedule THEN NoNote ELSE "No schedule set")
            /\ \A y \in ItemsOf(queue') : y.filePath # x.filePath => y \in ItemsOf(queue)
    ]_vars

\* the schedule was cleared while the loop of reprocessPending awaited an
\* item; its call for the next item, a FAILED one, made that item
\* PENDING_SCHEDULE and acquired nothing
C26_Witness ==
  /\ op = "processQueueItem"
  /\ ~hasSchedule
  /\ ~processingRef /\ procs = {}
  /\ \E x \in ItemsOf(queue) : x.status = "PENDING_SCHEDULE" /\ x.note = "No schedule set"
  /\ \E x \in ItemsOf(queue) : x.status = "FAILED"

\* C27: the effect that runs when the schedule has changed to a non-empty
\* schedule makes every PENDING_SCHEDULE item READY with no note and leaves
\* every other item as it was; once it has run no item is PENDING_SCHEDULE
\* while the schedule stays non-empty; and no two items of the queue have the
\* same filePath, however often a file is detected
C27_UnblockOnSchedule ==
  /\ [](/\ \A i, j \in 1..Len(queue) : queue[i].filePath = queue[j].filePath => i = j
        /\ hasSchedule /\ "unblock" \notin effects => WithStatus("PENDING_SCHEDULE") = {})
  /\ [][op' = "unblock" /\ hasSchedule =>
          /\ Len(queue') = Len(queue)
          /\ \A i \in 1..Len(queue) :
               queue'[i] = IF queue[i].status = "PENDING_SCHEDULE"
                           THEN [queue[i] EXCEPT !.status = "READY", !.note = NoNote]
                           ELSE queue[i]
       ]_vars

\* the effect has run on a non-empty schedule over a queue of two files: one
\* is READY without a note, the other kept its status FAILED and its note
C27_Witness ==
  /\ op = "unblock"
  /\ hasSchedule
  /\ Len(queue) = 2
  /\ \E x \in ItemsOf(queue) : x.status = "READY" /\ x.note = NoNote
  /\ \E x \in ItemsOf(queue) : x.status = "FAILED" /\ x.note = "No rows detected"

\* C28: while the schedule is non-empty no READY item is left waiting with no
\* processing in flight: whenever an item is READY, an invocation of
\* processQueueItem is in flight, or an effect that will pick the item up is
\* yet to run, or the loop of reprocessPending is on its way to it
C28_ReadyPickedUp ==
  hasSchedule /\ WithStatus("READY") # {} =>
    procs # {} \/ effects # {} \/ reprocess # NoReprocess

====
